---------------------------- MODULE Spec2Model ----------------------------
(***************************************************************************)
(* A model of usecasegen: the create-use-case.js script (the listing in    *)
(* npm-README.md), the library file generators (lib/generators) and the    *)
(* file-system helpers (lib/utils/fs-utils.js).                            *)
(*                                                                         *)
(* File contents are modelled as the character strings the code writes,    *)
(* and every `includes`, `replace` and `match` of the code is computed on  *)
(* those strings, so that a substring test or a regular expression that    *)
(* misses is visible in the model.                                         *)
(***************************************************************************)
EXTENDS Integers, Sequences, FiniteSets, TLC

VARIABLES
  fs,          \* the project's files: path |-> content (DOMAIN fs = existing files)
  dirs,        \* the project's directories (paths relative to process.cwd())
  pc,          \* where the running process is; "idle" when none runs
  local,       \* main()'s local variables (domain, usecaseName, apiName, ...)
  exitCode,    \* the exit code of the last process (-1 while none has exited)
  runs,        \* how many processes have been launched
  fs0,         \* the files as they were when the running process was launched
  dirs0,       \* the directories as they were when the running process was launched
  history,     \* the parameters of the completed generations, oldest first
  program,     \* which program the behaviour drives: create-use-case.js or a client of the library
  call,        \* the most recent library call: the function, its target path, its use case
  ret,         \* what the most recent library call gave back
  argv,        \* the command line of the running process (process.argv from index 2 on)
  stdin,       \* prompt |-> the line the user typed there that ended the prompt's loop
  calls,       \* the calls of generateUsecase made so far: the options passed, oldest first
  io           \* the surroundings of a run: the paths that cannot be written, what another
               \* process has created, and what the run has checked, executed and reported

vars == <<fs, dirs, pc, local, exitCode, runs, fs0, dirs0, history, program, call, ret,
          argv, stdin, calls, io>>

-----------------------------------------------------------------------------
(* Bounds of the model                                                     *)

\* the number of processes launched one after the other on the same project
MaxRuns == 2

-----------------------------------------------------------------------------
(* JavaScript string primitives used by the code                           *)

Char(s, i) == SubSeq(s, i, i)

StartsAt(t, p, i) == i + Len(p) - 1 <= Len(t) /\ SubSeq(t, i, i + Len(p) - 1) = p

MinOf(S) == CHOOSE i \in S : \A j \in S : i <= j

MaxOf(S) == CHOOSE i \in S : \A j \in S : i >= j

\* t.indexOf(p, from), 1-based; 0 when p does not occur at or after from
IndexFrom(t, p, from) ==
  LET S == {i \in from..(Len(t) - Len(p) + 1) : StartsAt(t, p, i)}
  IN  IF S = {} THEN 0 ELSE MinOf(S)

IndexOf(t, p) == IndexFrom(t, p, 1)

\* t.includes(p)
Includes(t, p) == \E i \in 1..(Len(t) - Len(p) + 1) : StartsAt(t, p, i)

\* the text after position i
From(t, i) == SubSeq(t, i, Len(t))

\* t.replace(p, r) with a string pattern: the first occurrence only
ReplaceFirst(t, p, r) ==
  LET i == IndexOf(t, p)
  IN  IF i = 0 THEN t
      ELSE SubSeq(t, 1, i - 1) \o r \o From(t, i + Len(p))

LowerLetters == "abcdefghijklmnopqrstuvwxyz"
UpperLetters == "ABCDEFGHIJKLMNOPQRSTUVWXYZ"
Digits == "0123456789"

IsLower(c) == IndexOf(LowerLetters, c) # 0
IsUpper(c) == IndexOf(UpperLetters, c) # 0
IsDigit(c) == IndexOf(Digits, c) # 0

UpperChar(c) ==
  LET i == IndexOf(LowerLetters, c)
  IN  IF i = 0 THEN c ELSE Char(UpperLetters, i)

LowerChar(c) ==
  LET i == IndexOf(UpperLetters, c)
  IN  IF i = 0 THEN c ELSE Char(LowerLetters, i)

RECURSIVE toUpperCase(_)
toUpperCase(s) ==
  IF s = "" THEN "" ELSE UpperChar(Char(s, 1)) \o toUpperCase(From(s, 2))

RECURSIVE toLowerCase(_)
toLowerCase(s) ==
  IF s = "" THEN "" ELSE LowerChar(Char(s, 1)) \o toLowerCase(From(s, 2))

\* s.replace(/-/g, r)
RECURSIVE ReplaceDashes(_, _)
ReplaceDashes(s, r) ==
  IF s = "" THEN ""
  ELSE (IF Char(s, 1) = "-" THEN r ELSE Char(s, 1)) \o ReplaceDashes(From(s, 2), r)

\* s.split('-')
RECURSIVE SplitDash(_)
SplitDash(s) ==
  LET i == IndexOf(s, "-")
  IN  IF i = 0 THEN <<s>>
      ELSE <<SubSeq(s, 1, i - 1)>> \o SplitDash(From(s, i + 1))

\* words.join('')
RECURSIVE Join(_)
Join(words) == IF words = <<>> THEN "" ELSE Head(words) \o Join(Tail(words))

\* word.charAt(0).toUpperCase() + word.slice(1).toLowerCase()
Capitalize(word) ==
  IF word = "" THEN "" ELSE UpperChar(Char(word, 1)) \o toLowerCase(From(word, 2))

-----------------------------------------------------------------------------
(* Naming conventions                                                      *)

toCamelCase(str) ==
  LET words == SplitDash(str)
  IN  Join([i \in 1..Len(words) |->
              IF i = 1 THEN toLowerCase(words[i]) ELSE Capitalize(words[i])])

toPascalCase(str) ==
  LET words == SplitDash(str)
  IN  Join([i \in 1..Len(words) |-> Capitalize(words[i])])

\* a variant of toConstCase that drops the dashes; C22 is meant to tell the two apart
toConstCaseDropsDashes(str) == ReplaceDashes(toUpperCase(str), "")

toConstCase(str) == ReplaceDashes(toUpperCase(str), "_")

\* pascal.replace(/([a-z0-9])([A-Z])/g, '$1-$2').toLowerCase()
RECURSIVE InsertDashes(_)
InsertDashes(s) ==
  IF Len(s) < 2 THEN s
  ELSE IF (IsLower(Char(s, 1)) \/ IsDigit(Char(s, 1))) /\ IsUpper(Char(s, 2))
       THEN Char(s, 1) \o "-" \o Char(s, 2) \o InsertDashes(From(s, 3))
       ELSE Char(s, 1) \o InsertDashes(From(s, 2))

PascalToKebab(pascal) == toLowerCase(InsertDashes(pascal))

-----------------------------------------------------------------------------
(* The texts the generators write (the template literals of the source)    *)

\* The one character a TLA+ string cannot hold, the backtick of the generated
\* TypeScript template literals, is written as this character, which occurs in
\* no text and no pattern of the code.
BackTick == "^"

\* words.map((word, index) => index === 0 ? word : word.charAt(0).toUpperCase() + word.slice(1)).join('')
camelOfWords(str) ==
  LET words == SplitDash(str)
  IN  Join([i \in 1..Len(words) |->
              IF i = 1 \/ words[i] = "" THEN words[i]
              ELSE UpperChar(Char(words[i], 1)) \o From(words[i], 2)])

\* the endpoint of generateApiMethodBody
\* a variant of endpointOf that keeps the dashes; C16 is meant to tell the two apart
endpointOfKeepsDashes(usecaseName) ==
  "/api/v1/" \o usecaseName

endpointOf(usecaseName) ==
  "/api/v1/" \o ReplaceDashes(usecaseName, "/")

\* the symbols.ts that updateSymbolsFile creates
\* a variant of the symbols.ts template with the two symbols interchanged; C8 is
\* meant to tell the two apart
symbolsContentSwapped(apiSymbol, usecaseSymbol) ==
  "/**\n"
  \o " * Dependency Injection Symbols\n"
  \o " */\n"
  \o "import { Symbol } from 'tsyringe/dist/typings/symbols';\n"
  \o "\n"
  \o "export const BASE = {\n"
  \o "  API_CLIENT: Symbol('API_CLIENT'),\n"
  \o "};\n"
  \o "\n"
  \o "export const API = {\n"
  \o "  " \o usecaseSymbol \o ": Symbol('" \o usecaseSymbol \o "'),\n"
  \o "};\n"
  \o "\n"
  \o "export const USE_CASES = {\n"
  \o "  " \o apiSymbol \o ": Symbol('" \o apiSymbol \o "'),\n"
  \o "};\n"

symbolsContent(apiSymbol, usecaseSymbol) ==
  "/**\n"
  \o " * Dependency Injection Symbols\n"
  \o " */\n"
  \o "import { Symbol } from 'tsyringe/dist/typings/symbols';\n"
  \o "\n"
  \o "export const BASE = {\n"
  \o "  API_CLIENT: Symbol('API_CLIENT'),\n"
  \o "};\n"
  \o "\n"
  \o "export const API = {\n"
  \o "  " \o apiSymbol \o ": Symbol('" \o apiSymbol \o "'),\n"
  \o "};\n"
  \o "\n"
  \o "export const USE_CASES = {\n"
  \o "  " \o usecaseSymbol \o ": Symbol('" \o usecaseSymbol \o "'),\n"
  \o "};\n"

\* the use-case interface file
interfaceContent(domain, usecaseName, usecasePascalCase) ==
  "import type { IBaseUsecase } from \"@/domains/_base/base.usecase\"\n"
  \o "\n"
  \o "export type " \o usecasePascalCase \o "Input = {\n"
  \o "  // TODO: Define input properties for the use case\n"
  \o "  id?: string;\n"
  \o "}\n"
  \o "\n"
  \o "export type " \o usecasePascalCase \o "Output = {\n"
  \o "  // TODO: Define output properties for the use case\n"
  \o "  success: boolean;\n"
  \o "  data?: any;\n"
  \o "}\n"
  \o "\n"
  \o "export interface I" \o usecasePascalCase \o "Usecase extends IBaseUsecase<" \o usecasePascalCase \o "Input, " \o usecasePascalCase \o "Output> {}\n"

\* the use-case implementation file (apiName is re-derived from apiPascalCase)
implementationContent(domain, usecaseName, usecasePascalCase, apiPascalCase, apiSymbol, apiName) ==
  "import { API } from \"@/di/symbols\"\n"
  \o "import { inject, injectable } from \"tsyringe\"\n"
  \o "import { " \o apiPascalCase \o "Api } from \"@/infrastructure/api/" \o apiName \o "/" \o apiName \o ".api\"\n"
  \o "import { I" \o usecasePascalCase \o "Usecase, " \o usecasePascalCase \o "Input, " \o usecasePascalCase \o "Output } from \"@/domains/" \o domain \o "/usecases/" \o usecaseName \o ".usecase.interface\"\n"
  \o "\n"
  \o "@injectable()\n"
  \o "export class " \o usecasePascalCase \o "Usecase implements I" \o usecasePascalCase \o "Usecase {\n"
  \o "  constructor(@inject(API." \o apiSymbol \o ") private readonly " \o toCamelCase(apiName) \o "Api: " \o apiPascalCase \o "Api) {}\n"
  \o "\n"
  \o "  async execute(request: " \o usecasePascalCase \o "Input): Promise<" \o usecasePascalCase \o "Output> {\n"
  \o "    return this." \o toCamelCase(apiName) \o "Api." \o toCamelCase(usecaseName) \o "(request)\n"
  \o "  }\n"
  \o "}\n"

\* the import added to an existing API client
importStatement(domain, usecaseName, usecasePascalCase) ==
  "import type { " \o usecasePascalCase \o "Input, " \o usecasePascalCase \o "Output } from '@/domains/" \o domain \o "/usecases/" \o usecaseName \o ".usecase.interface'"

\* the container.ts that updateContainerFile creates (usecaseName and apiName are re-derived)
containerContent(usecasePascalCase, usecaseSymbol, apiPascalCase, apiSymbol, usecaseName, apiName) ==
  "/**\n"
  \o " * Dependency Injection Container\n"
  \o " */\n"
  \o "import { container } from 'tsyringe';\n"
  \o "import { BASE, API, USE_CASES } from './symbols';\n"
  \o "import { " \o usecasePascalCase \o "Usecase } from '@/application/use-cases/" \o usecaseName \o ".usecase';\n"
  \o "import { " \o apiPascalCase \o "Api } from '@/infrastructure/api/" \o apiName \o "/" \o apiName \o ".api';\n"
  \o "import { ApiClient } from '@/infrastructure/utils/apiClient';\n"
  \o "\n"
  \o "// Register base dependencies\n"
  \o "container.registerSingleton(BASE.API_CLIENT, ApiClient);\n"
  \o "\n"
  \o "// Register API clients\n"
  \o "container.registerSingleton(API." \o apiSymbol \o ", " \o apiPascalCase \o "Api);\n"
  \o "\n"
  \o "// Register use cases\n"
  \o "container.registerSingleton(USE_CASES." \o usecaseSymbol \o ", " \o usecasePascalCase \o "Usecase);\n"
  \o "\n"
  \o "export { container };\n"

usecaseImport(usecasePascalCase, usecaseName) ==
  "import { " \o usecasePascalCase \o "Usecase } from '@/application/use-cases/" \o usecaseName \o ".usecase';"

apiImport(apiPascalCase, apiName) ==
  "import { " \o apiPascalCase \o "Api } from '@/infrastructure/api/" \o apiName \o "/" \o apiName \o ".api';"

apiRegistration(apiSymbol, apiPascalCase) ==
  "container.registerSingleton(API." \o apiSymbol \o ", " \o apiPascalCase \o "Api);"

usecaseRegistration(usecaseSymbol, usecasePascalCase) ==
  "container.registerSingleton(USE_CASES." \o usecaseSymbol \o ", " \o usecasePascalCase \o "Usecase);"

\* the server action file
actionContent(usecaseCamelCase, usecasePascalCase, usecaseSymbol, domain, usecaseName) ==
  "'use server'\n"
  \o "\n"
  \o "import { USE_CASES } from \"@/di/symbols\"\n"
  \o "import { container } from \"@/di/container\"\n"
  \o "import { I" \o usecasePascalCase \o "Usecase, " \o usecasePascalCase \o "Input } from \"@/domains/" \o domain \o "/usecases/" \o usecaseName \o ".usecase.interface\"\n"
  \o "\n"
  \o "export async function " \o usecaseCamelCase \o "(\n"
  \o "  input: " \o usecasePascalCase \o "Input\n"
  \o ") {\n"
  \o "  const " \o usecaseCamelCase \o "Usecase = container.resolve<I" \o usecasePascalCase \o "Usecase>(USE_CASES." \o usecaseSymbol \o ")\n"
  \o "  return await " \o usecaseCamelCase \o "Usecase.execute(input)\n"
  \o "}\n"

\* the domain entity file
domainModelContent(domainPascalCase) ==
  "/**\n"
  \o " * " \o domainPascalCase \o " entity representing the domain model.\n"
  \o " */\n"
  \o "export interface " \o domainPascalCase \o " {\n"
  \o "  id: string;\n"
  \o "  // TODO: Add more properties that describe this entity\n"
  \o "  createdAt?: Date;\n"
  \o "  updatedAt?: Date;\n"
  \o "}\n"
  \o "\n"
  \o "/**\n"
  \o " * Factory function to create a new " \o domainPascalCase \o " entity.\n"
  \o " *\n"
  \o " * @param {Partial<" \o domainPascalCase \o ">} data - Initial data for the entity\n"
  \o " * @returns {" \o domainPascalCase \o "} A new " \o domainPascalCase \o " entity\n"
  \o " */\n"
  \o "export function create" \o domainPascalCase \o "(data: Partial<" \o domainPascalCase \o "> = {}): " \o domainPascalCase \o " {\n"
  \o "  return {\n"
  \o "    id: data.id || crypto.randomUUID(),\n"
  \o "    // TODO: Initialize other properties with default values or from data\n"
  \o "    createdAt: data.createdAt || new Date(),\n"
  \o "    updatedAt: data.updatedAt || new Date(),\n"
  \o "    ...data,\n"
  \o "  };\n"
  \o "}\n"
  \o "\n"
  \o "/**\n"
  \o " * Repository interface for " \o domainPascalCase \o " entities.\n"
  \o " */\n"
  \o "export interface I" \o domainPascalCase \o "Repository {\n"
  \o "  findById(id: string): Promise<" \o domainPascalCase \o " | null>;\n"
  \o "  findAll(): Promise<" \o domainPascalCase \o "[]>;\n"
  \o "  create(entity: " \o domainPascalCase \o "): Promise<" \o domainPascalCase \o ">;\n"
  \o "  update(entity: " \o domainPascalCase \o "): Promise<" \o domainPascalCase \o ">;\n"
  \o "  delete(id: string): Promise<boolean>;\n"
  \o "}\n"

\* src/infrastructure/utils/apiClient.ts
apiClientUtilContent ==
  "/**\n"
  \o " * ApiClient for making HTTP requests\n"
  \o " */\n"
  \o "import { injectable } from 'tsyringe';\n"
  \o "\n"
  \o "interface FetchOptions {\n"
  \o "  method: string;\n"
  \o "  headers?: Record<string, string>;\n"
  \o "  body?: string;\n"
  \o "}\n"
  \o "\n"
  \o "@injectable()\n"
  \o "export class ApiClient {\n"
  \o "  private baseUrl: string;\n"
  \o "\n"
  \o "  constructor() {\n"
  \o "    this.baseUrl = process.env.API_BASE_URL || '';\n"
  \o "  }\n"
  \o "\n"
  \o "  /**\n"
  \o "   * Makes a fetch request to the API\n"
  \o "   *\n"
  \o "   * @param url The URL to fetch\n"
  \o "   * @param options The fetch options\n"
  \o "   * @returns The response data\n"
  \o "   */\n"
  \o "  async fetch<T>(url: string, options: FetchOptions): Promise<T> {\n"
  \o "    const defaultHeaders = {\n"
  \o "      'Content-Type': 'application/json',\n"
  \o "      // Add any other default headers here\n"
  \o "    };\n"
  \o "\n"
  \o "    const response = await fetch(" \o BackTick \o "${this.baseUrl}${url}" \o BackTick \o ", {\n"
  \o "      ...options,\n"
  \o "      headers: {\n"
  \o "        ...defaultHeaders,\n"
  \o "        ...options.headers,\n"
  \o "      },\n"
  \o "    });\n"
  \o "\n"
  \o "    if (!response.ok) {\n"
  \o "      throw new Error(" \o BackTick \o "API Error: ${response.status} ${response.statusText}" \o BackTick \o ");\n"
  \o "    }\n"
  \o "\n"
  \o "    // For 204 No Content responses\n"
  \o "    if (response.status === 204) {\n"
  \o "      return { success: true } as unknown as T;\n"
  \o "    }\n"
  \o "\n"
  \o "    return await response.json();\n"
  \o "  }\n"
  \o "}\n"

\* src/domains/_base/base.usecase.ts
baseUsecaseContent ==
  "/**\n"
  \o " * Base usecase interface that all usecases should implement\n"
  \o " */\n"
  \o "export interface IBaseUsecase<TInput, TOutput> {\n"
  \o "  execute(request: TInput): Promise<TOutput>;\n"
  \o "}\n"


generateApiMethodBody(usecaseName, usecasePascalCase, httpMethod) ==
  LET endpoint == endpointOf(usecaseName)
      method == toUpperCase(httpMethod)
  IN
  CASE method = "GET" ->
         ("return await this.apiClient.fetch<" \o usecasePascalCase \o "Output>(" \o BackTick \o endpoint \o "${request.id ? " \o BackTick \o "/${request.id}" \o BackTick \o " : ''}" \o BackTick \o ", {\n"
          \o "      method: 'GET',\n"
          \o "    });")
    [] method = "POST" ->
         ("return await this.apiClient.fetch<" \o usecasePascalCase \o "Output>('" \o endpoint \o "', {\n"
          \o "      method: 'POST',\n"
          \o "      body: JSON.stringify(request),\n"
          \o "    });")
    [] method = "PUT" ->
         ("return await this.apiClient.fetch<" \o usecasePascalCase \o "Output>(" \o BackTick \o endpoint \o "/${request.id}" \o BackTick \o ", {\n"
          \o "      method: 'PUT',\n"
          \o "      body: JSON.stringify(request),\n"
          \o "    });")
    [] method = "PATCH" ->
         ("return await this.apiClient.fetch<" \o usecasePascalCase \o "Output>(" \o BackTick \o endpoint \o "/${request.id}" \o BackTick \o ", {\n"
          \o "      method: 'PATCH',\n"
          \o "      body: JSON.stringify(request),\n"
          \o "    });")
    [] method = "DELETE" ->
         ("return await this.apiClient.fetch<" \o usecasePascalCase \o "Output>(" \o BackTick \o endpoint \o "/${request.id}" \o BackTick \o ", {\n"
          \o "      method: 'DELETE',\n"
          \o "    });")
    [] OTHER ->
         ("// TODO: Implement the API method for " \o httpMethod \o "\n"
          \o "    throw new Error('Not implemented');")

libGenerateApiMethodBody(usecaseName, usecasePascalCase, httpMethod) ==
  LET endpoint == endpointOf(usecaseName)
      method == toUpperCase(httpMethod)
  IN
  CASE method = "GET" ->
         ("return await this.apiClient.fetch<" \o usecasePascalCase \o "Output>(" \o BackTick \o endpoint \o "${request.id ? " \o BackTick \o "/${request.id}" \o BackTick \o " : ''}" \o BackTick \o ", {\n"
          \o "      method: 'GET',\n"
          \o "    });")
    [] method = "POST" ->
         ("return await this.apiClient.fetch<" \o usecasePascalCase \o "Output>('" \o endpoint \o "', {\n"
          \o "      method: 'POST',\n"
          \o "      body: JSON.stringify(request),\n"
          \o "    });")
    [] method = "PUT" ->
         ("return await this.apiClient.fetch<" \o usecasePascalCase \o "Output>(" \o BackTick \o endpoint \o "/${request.id}" \o BackTick \o ", {\n"
          \o "      method: 'PUT',\n"
          \o "      body: JSON.stringify(request),\n"
          \o "    });")
    [] method = "PATCH" ->
         ("return await this.apiClient.fetch<" \o usecasePascalCase \o "Output>(" \o BackTick \o endpoint \o "/${request.id}" \o BackTick \o ", {\n"
          \o "      method: 'PATCH',\n"
          \o "      body: JSON.stringify(request),\n"
          \o "    });")
    [] method = "DELETE" ->
         ("return await this.apiClient.fetch<" \o usecasePascalCase \o "Output>(" \o BackTick \o endpoint \o "/${request.id}" \o BackTick \o ", {\n"
          \o "      method: 'DELETE',\n"
          \o "    });")
    [] OTHER ->
         ("// TODO: Implement the API method for " \o httpMethod \o "\n"
          \o "throw new Error('Not implemented');")

apiClientContent(domain, apiName, usecaseName, usecasePascalCase, httpMethod, apiPascalCase) ==
  "import { BASE } from '@/di/symbols'\n"
  \o "import { inject, injectable } from 'tsyringe'\n"
  \o "import { ApiClient } from '@/infrastructure/utils/apiClient'\n"
  \o "\n"
  \o "import type { " \o usecasePascalCase \o "Input, " \o usecasePascalCase \o "Output } from '@/domains/" \o domain \o "/usecases/" \o usecaseName \o ".usecase.interface'\n"
  \o "\n"
  \o "@injectable()\n"
  \o "export class " \o apiPascalCase \o "Api {\n"
  \o "  constructor(@inject(BASE.API_CLIENT) private readonly apiClient: ApiClient) {}\n"
  \o "\n"
  \o "  async " \o toCamelCase(usecaseName) \o "(request: " \o usecasePascalCase \o "Input): Promise<" \o usecasePascalCase \o "Output> {\n"
  \o "    " \o generateApiMethodBody(usecaseName, usecasePascalCase, httpMethod) \o "\n"
  \o "  }\n"
  \o "}\n"

methodContent(usecaseName, usecasePascalCase, httpMethod) ==
  "\n"
  \o "  async " \o toCamelCase(usecaseName) \o "(request: " \o usecasePascalCase \o "Input): Promise<" \o usecasePascalCase \o "Output> {\n"
  \o "    " \o generateApiMethodBody(usecaseName, usecasePascalCase, httpMethod) \o "\n"
  \o "  }\n"
  \o "}"

libImplementationContent(domain, usecaseName, usecasePascalCase, apiPascalCase, apiSymbol, apiName) ==
  "import { API } from \"@/di/symbols\"\n"
  \o "import { inject, injectable } from \"tsyringe\"\n"
  \o "import { " \o apiPascalCase \o "Api } from \"@/infrastructure/api/" \o apiName \o "/" \o apiName \o ".api\"\n"
  \o "import { I" \o usecasePascalCase \o "Usecase, " \o usecasePascalCase \o "Input, " \o usecasePascalCase \o "Output } from \"@/domains/" \o domain \o "/usecases/" \o usecaseName \o ".usecase.interface\"\n"
  \o "\n"
  \o "@injectable()\n"
  \o "export class " \o usecasePascalCase \o "Usecase implements I" \o usecasePascalCase \o "Usecase {\n"
  \o "  constructor(@inject(API." \o apiSymbol \o ") private readonly " \o camelOfWords(apiName) \o "Api: " \o apiPascalCase \o "Api) {}\n"
  \o "\n"
  \o "  async execute(request: " \o usecasePascalCase \o "Input): Promise<" \o usecasePascalCase \o "Output> {\n"
  \o "    return this." \o camelOfWords(apiName) \o "Api." \o camelOfWords(usecaseName) \o "(request)\n"
  \o "  }\n"
  \o "}\n"

libApiClientContent(domain, apiName, usecaseName, usecasePascalCase, httpMethod, apiPascalCase) ==
  "import { BASE } from '@/di/symbols'\n"
  \o "import { inject, injectable } from 'tsyringe'\n"
  \o "import { ApiClient } from '@/infrastructure/utils/apiClient'\n"
  \o "\n"
  \o "import type { " \o usecasePascalCase \o "Input, " \o usecasePascalCase \o "Output } from '@/domains/" \o domain \o "/usecases/" \o usecaseName \o ".usecase.interface'\n"
  \o "\n"
  \o "@injectable()\n"
  \o "export class " \o apiPascalCase \o "Api {\n"
  \o "  constructor(@inject(BASE.API_CLIENT) private readonly apiClient: ApiClient) {}\n"
  \o "\n"
  \o "  async " \o camelOfWords(usecaseName) \o "(request: " \o usecasePascalCase \o "Input): Promise<" \o usecasePascalCase \o "Output> {\n"
  \o "    " \o libGenerateApiMethodBody(usecaseName, usecasePascalCase, httpMethod) \o "\n"
  \o "  }\n"
  \o "}\n"

libMethodContent(usecaseName, usecasePascalCase, httpMethod, usecaseCamelCase) ==
  "\n"
  \o "  async " \o usecaseCamelCase \o "(request: " \o usecasePascalCase \o "Input): Promise<" \o usecasePascalCase \o "Output> {\n"
  \o "    " \o libGenerateApiMethodBody(usecaseName, usecasePascalCase, httpMethod) \o "\n"
  \o "  }\n"
  \o "}"

-----------------------------------------------------------------------------
(* The file system (fs.existsSync, fs.writeFileSync, fs.mkdirSync)         *)

SlashPositions(p) == {i \in 1..Len(p) : Char(p, i) = "/"}

\* path.dirname(p) for a relative path; "." is process.cwd()
Dirname(p) ==
  IF SlashPositions(p) = {} THEN "." ELSE SubSeq(p, 1, MaxOf(SlashPositions(p)) - 1)

\* path.resolve(process.cwd(), p), kept relative: no doubled and no trailing "/"
RECURSIVE resolve(_)
resolve(p) ==
  IF IndexOf(p, "//") # 0 THEN resolve(ReplaceFirst(p, "//", "/"))
  ELSE IF Len(p) > 1 /\ Char(p, Len(p)) = "/" THEN resolve(SubSeq(p, 1, Len(p) - 1))
  ELSE p

\* fs.existsSync(p)
existsSync(f, d, p) == p \in DOMAIN f \/ p \in d

\* fs.writeFileSync(p, content) in a directory that exists
writeFileSync(f, p, content) ==
  [q \in DOMAIN f \cup {p} |-> IF q = p THEN content ELSE f[q]]

\* fs.mkdirSync(p, { recursive: true }): p and every missing ancestor
mkdirSync(d, p) == d \cup {p} \cup {SubSeq(p, 1, i - 1) : i \in SlashPositions(p)}

ensureDirectoryExists(f, d, dirPath) ==
  IF ~existsSync(f, d, resolve(dirPath)) THEN mkdirSync(d, resolve(dirPath)) ELSE d

\* a variant of writeFileIfNotExists without the existence test; C2 is meant to
\* tell the two apart
writeFileAlways(f, d, filePath, content) ==
  IF Dirname(filePath) \in d
  THEN [fs |-> writeFileSync(f, filePath, content), ret |-> "true"]
  ELSE [fs |-> f, ret |-> "ENOENT"]

\* writeFileIfNotExists of fs-utils.js: the files afterwards and what the call
\* gives back: "true", "false", or "ENOENT" when fs.writeFileSync throws because
\* the directory of filePath does not exist
writeFileIfNotExists(f, d, filePath, content) ==
  IF ~existsSync(f, d, filePath)
  THEN IF Dirname(filePath) \in d
       THEN [fs |-> writeFileSync(f, filePath, content), ret |-> "true"]
       ELSE [fs |-> f, ret |-> "ENOENT"]
  ELSE [fs |-> f, ret |-> "false"]

-----------------------------------------------------------------------------
(* The paths of the generated files                                        *)

symbolsPath == "src/di/symbols.ts"
containerPath == "src/di/container.ts"
baseUsecasePath == "src/domains/_base/base.usecase.ts"
apiClientUtilPath == "src/infrastructure/utils/apiClient.ts"
interfacePath(domain, usecaseName) ==
  "src/domains/" \o domain \o "/usecases/" \o usecaseName \o ".usecase.interface.ts"
implementationPath(usecaseName) ==
  "src/application/use-cases/" \o usecaseName \o ".usecase.ts"
apiClientPath(apiName) ==
  resolve("src/infrastructure/api/" \o apiName \o "/" \o apiName \o ".api.ts")
actionPath(usecaseCamelCase) ==
  "src/presenter/actions/" \o usecaseCamelCase \o ".action.ts"
modelPath(domain) ==
  "src/domains/" \o domain \o "/entities/" \o domain \o ".entity.ts"

-----------------------------------------------------------------------------
(* The regular expressions of the code                                     *)

\* /<head>([^}]*)};/s : the position of the "}" that closes the first match of
\* the pattern, 0 when the pattern matches nowhere.  [^}]* runs to the first
\* "}" after the head, and the match needs ";" right after it.
GroupClose(t, head) ==
  LET starts == {i \in 1..(Len(t) - Len(head) + 1) : StartsAt(t, head, i)}
      closeOf(i) == IndexFrom(t, "}", i + Len(head))
      ok == {i \in starts : /\ closeOf(i) # 0
                            /\ closeOf(i) < Len(t)
                            /\ Char(t, closeOf(i) + 1) = ";"}
  IN  IF ok = {} THEN 0 ELSE closeOf(MinOf(ok))

\* content.replace(/<head>([^}]*)};/s, `<head>$1<entry>\n};`)
InsertIntoGroup(t, head, entry) ==
  LET j == GroupClose(t, head)
  IN  IF j = 0 THEN t
      ELSE SubSeq(t, 1, j - 1) \o entry \o "\n" \o From(t, j)

\* /import.*from.*\n/g : the matches, each as <<first, last>> positions.  A
\* match starts at the first "import" of a line that has "from" later on the
\* same line and runs to the line's "\n"; a line holds at most one match.
ImportMatches(t) ==
  LET lineEnd(i) == IndexFrom(t, "\n", i)
      good == {i \in 1..(Len(t) - 5) :
                 /\ StartsAt(t, "import", i)
                 /\ lineEnd(i) # 0
                 /\ LET j == IndexFrom(t, "from", i + 6)
                    IN  j # 0 /\ j + 3 < lineEnd(i)}
  IN  {<<i, lineEnd(i)>> : i \in {k \in good : \A m \in good : lineEnd(m) = lineEnd(k) => m >= k}}

\* content.replace(/import.*from.*\n/, match => match + line + '\n')
InsertAfterFirstImport(t, line) ==
  LET ms == ImportMatches(t)
  IN  IF ms = {} THEN t
      ELSE LET m == CHOOSE x \in ms : \A y \in ms : x[1] <= y[1]
           IN  SubSeq(t, 1, m[2]) \o line \o "\n" \o From(t, m[2] + 1)

\* importSection = content.match(/import.*from.*\n/g);
\* lastImport = importSection[importSection.length - 1];
\* content.replace(lastImport, lastImport + line + '\n'), or line + '\n' + content
InsertAfterLastImport(t, line) ==
  LET ms == ImportMatches(t)
  IN  IF ms = {} THEN line \o "\n" \o t
      ELSE LET m == CHOOSE x \in ms : \A y \in ms : x[1] >= y[1]
               lastImport == SubSeq(t, m[1], m[2])
           IN  ReplaceFirst(t, lastImport, lastImport \o line \o "\n")

\* content.replace(/}$/, replacement): "$" without the m flag is the end of input
ReplaceFinalBrace(t, replacement) ==
  IF Len(t) > 0 /\ Char(t, Len(t)) = "}"
  THEN SubSeq(t, 1, Len(t) - 1) \o replacement
  ELSE t

-----------------------------------------------------------------------------
(* create-use-case.js: the generation steps                                *)

symbolEntry(symbol) == symbol \o ": Symbol('" \o symbol \o "')"

\* a variant of updateSymbolsFile that inserts without looking for the entry; C4
\* is meant to tell the two apart
updateSymbolsFileAlwaysInserts(f, usecaseSymbol, apiSymbol) ==
  IF symbolsPath \notin DOMAIN f
  THEN writeFileSync(f, symbolsPath, symbolsContent(apiSymbol, usecaseSymbol))
  ELSE writeFileSync(f, symbolsPath,
         InsertIntoGroup(
           InsertIntoGroup(f[symbolsPath], "export const API = {",
                           "  " \o symbolEntry(apiSymbol) \o ","),
           "export const USE_CASES = {", "  " \o symbolEntry(usecaseSymbol) \o ","))

\* a variant of updateSymbolsFile that puts a new entry in front of the entries of
\* its group; C23 is meant to tell the two apart
updateSymbolsFilePrepends(f, usecaseSymbol, apiSymbol) ==
  IF symbolsPath \notin DOMAIN f
  THEN writeFileSync(f, symbolsPath, symbolsContent(apiSymbol, usecaseSymbol))
  ELSE writeFileSync(f, symbolsPath,
         ReplaceFirst(
           ReplaceFirst(f[symbolsPath], "export const API = {",
                        "export const API = {\n  " \o symbolEntry(apiSymbol) \o ","),
           "export const USE_CASES = {",
           "export const USE_CASES = {\n  " \o symbolEntry(usecaseSymbol) \o ","))

updateSymbolsFile(f, usecaseSymbol, apiSymbol) ==
  IF symbolsPath \notin DOMAIN f
  THEN writeFileSync(f, symbolsPath, symbolsContent(apiSymbol, usecaseSymbol))
  ELSE LET read == f[symbolsPath]
           withApi ==
             IF ~Includes(read, symbolEntry(apiSymbol))
             THEN InsertIntoGroup(read, "export const API = {",
                                  "  " \o symbolEntry(apiSymbol) \o ",")
             ELSE read
           withUsecase ==
             IF ~Includes(withApi, symbolEntry(usecaseSymbol))
             THEN InsertIntoGroup(withApi, "export const USE_CASES = {",
                                  "  " \o symbolEntry(usecaseSymbol) \o ",")
             ELSE withApi
       IN  writeFileSync(f, symbolsPath, withUsecase)

createUsecaseInterfaceFile(f, domain, usecaseName, usecasePascalCase) ==
  IF interfacePath(domain, usecaseName) \notin DOMAIN f
  THEN writeFileSync(f, interfacePath(domain, usecaseName),
                     interfaceContent(domain, usecaseName, usecasePascalCase))
  ELSE f

createUsecaseImplementationFile(f, domain, usecaseName, usecasePascalCase, apiPascalCase, apiSymbol) ==
  IF implementationPath(usecaseName) \notin DOMAIN f
  THEN writeFileSync(f, implementationPath(usecaseName),
                     implementationContent(domain, usecaseName, usecasePascalCase,
                                           apiPascalCase, apiSymbol,
                                           PascalToKebab(apiPascalCase)))
  ELSE f

createOrUpdateApiClientFile(f, domain, apiName, usecaseName, usecasePascalCase, httpMethod) ==
  IF apiClientPath(apiName) \notin DOMAIN f
  THEN writeFileSync(f, apiClientPath(apiName),
                     apiClientContent(domain, apiName, usecaseName, usecasePascalCase,
                                      httpMethod, toPascalCase(apiName)))
  ELSE LET read == f[apiClientPath(apiName)]
           withImport ==
             IF ~Includes(read, usecasePascalCase \o "Input")
             THEN InsertAfterFirstImport(read,
                    importStatement(domain, usecaseName, usecasePascalCase))
             ELSE read
       IN  IF ~Includes(read, "async " \o toCamelCase(usecaseName))
           THEN writeFileSync(f, apiClientPath(apiName),
                  ReplaceFinalBrace(withImport,
                    methodContent(usecaseName, usecasePascalCase, httpMethod)))
           ELSE f

\* a variant of updateContainerFile that registers the use case without looking
\* for its registration; C1 is meant to tell the two apart
updateContainerFileAlwaysRegisters(f, usecasePascalCase, usecaseSymbol, apiPascalCase, apiSymbol, usecaseName) ==
  IF containerPath \notin DOMAIN f
  THEN writeFileSync(f, containerPath,
         containerContent(usecasePascalCase, usecaseSymbol, apiPascalCase, apiSymbol,
                          PascalToKebab(usecasePascalCase), PascalToKebab(apiPascalCase)))
  ELSE writeFileSync(f, containerPath,
         ReplaceFirst(f[containerPath], "export { container };",
                      usecaseRegistration(usecaseSymbol, usecasePascalCase)
                      \o "\n\nexport { container };"))

updateContainerFile(f, usecasePascalCase, usecaseSymbol, apiPascalCase, apiSymbol, usecaseName) ==
  IF containerPath \notin DOMAIN f
  THEN writeFileSync(f, containerPath,
         containerContent(usecasePascalCase, usecaseSymbol, apiPascalCase, apiSymbol,
                          PascalToKebab(usecasePascalCase), PascalToKebab(apiPascalCase)))
  ELSE LET read == f[containerPath]
           apiName == PascalToKebab(apiPascalCase)
           withUsecaseImport ==
             IF ~Includes(read, usecasePascalCase)
             THEN InsertAfterLastImport(read, usecaseImport(usecasePascalCase, usecaseName))
             ELSE read
           withApiImport ==
             IF /\ ~Includes(withUsecaseImport, apiPascalCase)
                /\ ~Includes(withUsecaseImport, apiPascalCase \o "Api")
             THEN InsertAfterLastImport(withUsecaseImport, apiImport(apiPascalCase, apiName))
             ELSE withUsecaseImport
           anchor == "export { container };"
           registered ==
             IF ~Includes(withApiImport, "API." \o apiSymbol)
             THEN ReplaceFirst(withApiImport, anchor,
                    apiRegistration(apiSymbol, apiPascalCase) \o "\n"
                    \o usecaseRegistration(usecaseSymbol, usecasePascalCase)
                    \o "\n\n" \o anchor)
             ELSE IF ~Includes(withApiImport, "USE_CASES." \o usecaseSymbol)
             THEN ReplaceFirst(withApiImport, anchor,
                    usecaseRegistration(usecaseSymbol, usecasePascalCase)
                    \o "\n\n" \o anchor)
             ELSE withApiImport
       IN  writeFileSync(f, containerPath, registered)

createActionFile(f, usecaseCamelCase, usecasePascalCase, usecaseSymbol, domain, usecaseName) ==
  IF actionPath(usecaseCamelCase) \notin DOMAIN f
  THEN writeFileSync(f, actionPath(usecaseCamelCase),
         actionContent(usecaseCamelCase, usecasePascalCase, usecaseSymbol, domain, usecaseName))
  ELSE f

createDomainModelFile(f, domain, domainPascalCase) ==
  IF modelPath(domain) \notin DOMAIN f
  THEN writeFileSync(f, modelPath(domain), domainModelContent(domainPascalCase))
  ELSE f

createApiClientUtilFile(f) ==
  IF apiClientUtilPath \notin DOMAIN f
  THEN writeFileSync(f, apiClientUtilPath, apiClientUtilContent)
  ELSE f

createBaseUsecaseInterface(f) ==
  IF baseUsecasePath \notin DOMAIN f
  THEN writeFileSync(f, baseUsecasePath, baseUsecaseContent)
  ELSE f

-----------------------------------------------------------------------------
(* The library (lib/index.js): the file generators of file-generators.js   *)
(* and the utilities of fs-utils.js, each giving the files afterwards and   *)
(* what the call gives back ("true", "false", or "ENOENT" when              *)
(* fs.writeFileSync throws because the directory does not exist)            *)

libCreateUsecaseInterfaceFile(f, d, domain, usecaseName, usecasePascalCase) ==
  writeFileIfNotExists(f, d, interfacePath(domain, usecaseName),
                       interfaceContent(domain, usecaseName, usecasePascalCase))

libCreateUsecaseImplementationFile(f, d, domain, usecaseName, usecasePascalCase, apiPascalCase, apiSymbol) ==
  writeFileIfNotExists(f, d, implementationPath(usecaseName),
                       libImplementationContent(domain, usecaseName, usecasePascalCase,
                                                apiPascalCase, apiSymbol,
                                                PascalToKebab(apiPascalCase)))

libCreateOrUpdateApiClientFile(f, d, domain, apiName, usecaseName, usecasePascalCase, httpMethod) ==
  IF ~existsSync(f, d, apiClientPath(apiName))
  THEN IF Dirname(apiClientPath(apiName)) \in d
       THEN [fs |-> writeFileSync(f, apiClientPath(apiName),
                      libApiClientContent(domain, apiName, usecaseName, usecasePascalCase,
                                          httpMethod, toPascalCase(apiName))),
             ret |-> "true"]
       ELSE [fs |-> f, ret |-> "ENOENT"]
  ELSE LET read == f[apiClientPath(apiName)]
           camel == camelOfWords(usecaseName)
           withImport ==
             IF ~Includes(read, usecasePascalCase \o "Input")
             THEN InsertAfterFirstImport(read,
                    importStatement(domain, usecaseName, usecasePascalCase))
             ELSE read
       IN  IF ~Includes(read, "async " \o camel)
           THEN [fs |-> writeFileSync(f, apiClientPath(apiName),
                          ReplaceFinalBrace(withImport,
                            libMethodContent(usecaseName, usecasePascalCase, httpMethod, camel))),
                 ret |-> "true"]
           ELSE [fs |-> f, ret |-> "false"]

libCreateActionFile(f, d, usecaseCamelCase, usecasePascalCase, usecaseSymbol, domain, usecaseName) ==
  writeFileIfNotExists(f, d, actionPath(usecaseCamelCase),
                       actionContent(usecaseCamelCase, usecasePascalCase, usecaseSymbol,
                                     domain, usecaseName))

-----------------------------------------------------------------------------
(* use-case-generator.js: registerUsecaseInDI, registerUsecaseInContainer  *)
(* and generateUsecase                                                     *)

\* the symbols.ts that registerUsecaseInDI creates
libSymbolsContent(usecaseSymbol) ==
  "/**\n * Dependency Injection symbols\n */\n\n"
  \o "export const BASE = {\n  API_CLIENT: Symbol('API_CLIENT'),\n}\n\n"
  \o "export const API = {\n  // API symbols will be registered here\n}\n\n"
  \o "export const USE_CASES = {\n  " \o usecaseSymbol \o ": Symbol('" \o usecaseSymbol \o "'),\n}\n\n"
  \o "export const REPOSITORIES = {\n  // Repository symbols will be registered here\n}\n"

\* inside.trim() === ''
IsBlank(s) == \A i \in 1..Len(s) : Char(s, i) \in {" ", "\n", "\t", "\r"}

\* content.replace(/export const USE_CASES = \{([\s\S]*?)\}/, (match, inside) => ...):
\* the group runs from the head to the first "}" after it
AddToUseCases(content, usecaseSymbol) ==
  LET head == "export const USE_CASES = {"
      start == IndexOf(content, head)
      close == IF start = 0 THEN 0 ELSE IndexFrom(content, "}", start + Len(head))
      inside == SubSeq(content, start + Len(head), close - 1)
      entry == "  " \o usecaseSymbol \o ": Symbol('" \o usecaseSymbol \o "'),\n}"
  IN  IF close = 0 THEN content
      ELSE SubSeq(content, 1, start - 1)
           \o (IF IsBlank(inside) THEN head \o "\n" \o entry ELSE head \o inside \o entry)
           \o From(content, close + 1)

\* registerUsecaseInDI(usecaseName, usecaseSymbol): the files afterwards and what
\* the call gives back ("ENOENT" when fs.writeFileSync throws for want of src/di)
registerUsecaseInDI(f, d, usecaseName, usecaseSymbol) ==
  IF ~existsSync(f, d, symbolsPath)
  THEN LET w == writeFileIfNotExists(f, d, symbolsPath, libSymbolsContent(usecaseSymbol))
       IN  [fs |-> w.fs, ret |-> IF w.ret = "ENOENT" THEN "ENOENT" ELSE "true"]
  ELSE LET content == f[symbolsPath]
       IN  IF Includes(content, usecaseSymbol \o ":") THEN [fs |-> f, ret |-> "false"]
           ELSE IF Includes(content, "export const USE_CASES = {")
                THEN [fs |-> writeFileSync(f, symbolsPath, AddToUseCases(content, usecaseSymbol)),
                      ret |-> "true"]
                ELSE [fs |-> f, ret |-> "false"]

\* the container.ts that registerUsecaseInContainer creates
libContainerContent(usecaseName, usecasePascalCase, usecaseSymbol) ==
  "/**\n * Dependency Injection container\n */\n"
  \o "import 'reflect-metadata';\n"
  \o "import { container } from 'tsyringe';\n"
  \o "import { USE_CASES, API, BASE } from './symbols';\n"
  \o "import { ApiClient } from '@/infrastructure/utils/apiClient';\n"
  \o "import { " \o usecasePascalCase \o "Usecase } from '@/application/use-cases/"
  \o usecaseName \o ".usecase';\n\n"
  \o "// Register base dependencies\n"
  \o "container.register(BASE.API_CLIENT, { useClass: ApiClient });\n\n"
  \o "// Register API clients\n// TODO: Register API clients here\n\n"
  \o "// Register use cases\n"
  \o "container.register(USE_CASES." \o usecaseSymbol \o ", { useClass: "
  \o usecasePascalCase \o "Usecase });\n\n"
  \o "export { container };\n"

\* content.replace(/import.*from.*\n(?!import)/, match => match + line): the
\* leftmost "import ... from ..." line whose next line does not start with "import"
InsertAfterImportBlock(t, line) ==
  LET lineEnd(i) == IndexFrom(t, "\n", i)
      good == {i \in 1..(Len(t) - 5) :
                 /\ StartsAt(t, "import", i)
                 /\ lineEnd(i) # 0
                 /\ LET j == IndexFrom(t, "from", i + 6)
                    IN  j # 0 /\ j + 3 < lineEnd(i)
                 /\ ~StartsAt(t, "import", lineEnd(i) + 1)}
  IN  IF good = {} THEN t
      ELSE LET e == lineEnd(MinOf(good))
           IN  SubSeq(t, 1, e) \o line \o From(t, e + 1)

\* content.replace(/\/\/ Register use cases\n([\s\S]*?)(?=\n\n|$)/, match => head + line):
\* the match runs from the head to the first blank line, or to the end of the text
ReplaceUseCaseBlock(t, line) ==
  LET head == "// Register use cases\n"
      start == IndexOf(t, head)
      blank == IF start = 0 THEN 0 ELSE IndexFrom(t, "\n\n", start + Len(head))
      stop == IF blank = 0 THEN Len(t) + 1 ELSE blank
  IN  IF start = 0 THEN t
      ELSE SubSeq(t, 1, start - 1) \o head \o line \o From(t, stop)

\* registerUsecaseInContainer(usecaseName, usecasePascalCase, usecaseSymbol)
registerUsecaseInContainer(f, d, usecaseName, usecasePascalCase, usecaseSymbol) ==
  LET registration == "container.register(USE_CASES." \o usecaseSymbol \o ", { useClass: "
                      \o usecasePascalCase \o "Usecase });"
      import == "import { " \o usecasePascalCase \o "Usecase } from '@/application/use-cases/"
                \o usecaseName \o ".usecase';\n"
  IN  IF ~existsSync(f, d, containerPath)
      THEN LET w == writeFileIfNotExists(f, d, containerPath,
                      libContainerContent(usecaseName, usecasePascalCase, usecaseSymbol))
           IN  [fs |-> w.fs, ret |-> IF w.ret = "ENOENT" THEN "ENOENT" ELSE "true"]
      ELSE LET content == f[containerPath]
               c1 == IF ~Includes(content, "import { " \o usecasePascalCase \o "Usecase }")
                     THEN InsertAfterImportBlock(content, import)
                     ELSE content
               c2 == IF Includes(c1, "// Register use cases")
                     THEN ReplaceUseCaseBlock(c1, registration \o "\n")
                     ELSE ReplaceFirst(c1, "export { container };",
                                       "// Register use cases\n" \o registration
                                       \o "\n\nexport { container };")
           IN  IF Includes(content, usecasePascalCase \o "Usecase")
               THEN [fs |-> f, ret |-> "false"]
               ELSE [fs |-> writeFileSync(f, containerPath, c2), ret |-> "true"]

\* module.exports of string-utils.js and of fs-utils.js
stringUtilsExports == {"toCamelCase", "toPascalCase", "toConstCase"}
fsUtilsExports == {"ensureDirectoryExists", "writeFileIfNotExists", "displayFileSummary"}

\* generateUsecase, lines 197-201: the four ensureDirExists calls
generateUsecaseDirectories(f, d, options) ==
  ensureDirectoryExists(f,
    ensureDirectoryExists(f,
      ensureDirectoryExists(f,
        ensureDirectoryExists(f, d, "src/domains/" \o options.domain \o "/usecases"),
        "src/application/use-cases"),
      "src/infrastructure/api/" \o options.apiName),
    "src/presenter/actions")

\* generateUsecase, lines 203-218: the base use-case interface, when it is missing
generateUsecaseBase(f, d) ==
  IF ~existsSync(f, d, baseUsecasePath)
  THEN [fs |-> writeFileSync(f, baseUsecasePath, baseUsecaseContent),
        dirs |-> ensureDirectoryExists(f, d, "src/domains/_base")]
  ELSE [fs |-> f, dirs |-> d]

\* generateUsecase, lines 222-225: the four file generators, one after the other
generateUsecaseFiles(f, d, options) ==
  libCreateActionFile(
    libCreateOrUpdateApiClientFile(
      libCreateUsecaseImplementationFile(
        libCreateUsecaseInterfaceFile(f, d, options.domain, options.usecaseName,
                                      toPascalCase(options.usecaseName)).fs,
        d, options.domain, options.usecaseName, toPascalCase(options.usecaseName),
        toPascalCase(options.apiName), ReplaceDashes(toUpperCase(options.apiName), "_")).fs,
      d, options.domain, options.apiName, options.usecaseName,
      toPascalCase(options.usecaseName), options.httpMethod).fs,
    d, toCamelCase(options.usecaseName), toPascalCase(options.usecaseName),
    ReplaceDashes(toUpperCase(options.usecaseName), "_"), options.domain,
    options.usecaseName).fs

\* generateUsecase, line 227, after line 226 gave r
generateUsecaseContainer(r, d, options) ==
  IF r.ret = "ENOENT" THEN r
  ELSE registerUsecaseInContainer(r.fs, d, options.usecaseName,
                                  toPascalCase(options.usecaseName),
                                  ReplaceDashes(toUpperCase(options.usecaseName), "_"))

\* generateUsecase, lines 226-232, in the directories and with the base file of b
generateUsecaseRegistries(b, options) ==
  [fs |-> generateUsecaseContainer(
            registerUsecaseInDI(generateUsecaseFiles(b.fs, b.dirs, options), b.dirs,
                                options.usecaseName,
                                ReplaceDashes(toUpperCase(options.usecaseName), "_")),
            b.dirs, options).fs,
   dirs |-> b.dirs,
   thrown |-> IF generateUsecaseContainer(
                   registerUsecaseInDI(generateUsecaseFiles(b.fs, b.dirs, options), b.dirs,
                                       options.usecaseName,
                                       ReplaceDashes(toUpperCase(options.usecaseName), "_")),
                   b.dirs, options).ret = "ENOENT"
              THEN "Error: ENOENT: no such file or directory"
              ELSE ""]

\* generateUsecase({ domain, usecaseName, apiName, httpMethod }): the files and
\* directories afterwards and the error thrown ("" when it returns).  Its first
\* statement calls convertKebabToPascal, which use-case-generator.js takes from
\* string-utils.js; a name the module does not export is undefined, and calling it
\* throws a TypeError before anything is written.  With the names exported the
\* body runs with the conversions of string-utils.js.
generateUsecase(f, d, options) ==
  IF "convertKebabToPascal" \notin stringUtilsExports
  THEN [fs |-> f, dirs |-> d, thrown |-> "TypeError: convertKebabToPascal is not a function"]
  ELSE IF "convertKebabToCamel" \notin stringUtilsExports
  THEN [fs |-> f, dirs |-> d, thrown |-> "TypeError: convertKebabToCamel is not a function"]
  ELSE IF "ensureDirExists" \notin fsUtilsExports
  THEN [fs |-> f, dirs |-> d, thrown |-> "TypeError: ensureDirExists is not a function"]
  ELSE generateUsecaseRegistries(
         generateUsecaseBase(f, generateUsecaseDirectories(f, d, options)), options)

-----------------------------------------------------------------------------
(* create-use-case.js: input validation and the tsyringe set-up            *)

\* String.prototype.trim, for the blanks a terminal answer can hold
RECURSIVE TrimRight(_)
TrimRight(s) == IF Len(s) > 0 /\ Char(s, Len(s)) = " " THEN TrimRight(SubSeq(s, 1, Len(s) - 1)) ELSE s

RECURSIVE TrimStart(_)
TrimStart(s) == IF Len(s) > 0 /\ Char(s, 1) = " " THEN TrimStart(From(s, 2)) ELSE s

trim(s) == TrimStart(TrimRight(s))

\* validateParam(value, paramName); undefined and '' are both modelled as ""
validateParam(value) == ~(value = "" \/ trim(value) = "")

\* validateKebabCase of generate-usecase.js: /^[a-z][a-z0-9]*(-[a-z0-9]+)*$/.test(input)
validateKebabCase(input) ==
  /\ Len(input) > 0
  /\ IsLower(Char(input, 1))
  /\ \A i \in 1..Len(input) :
       IsLower(Char(input, i)) \/ IsDigit(Char(input, i)) \/ Char(input, i) = "-"
  /\ Char(input, Len(input)) # "-"
  /\ ~Includes(input, "--")

validMethods == {"GET", "POST", "PUT", "PATCH", "DELETE"}

validateHttpMethod(method) == toUpperCase(method) \in validMethods

\* validateYesNo(value): "true", "false" or "null"
validateYesNo(value) ==
  LET normalized == toLowerCase(trim(value))
  IN  IF normalized \in {"y", "yes"} THEN "true"
      ELSE IF normalized \in {"n", "no"} THEN "false"
      ELSE "null"

packageJsonPath == "package.json"
tsconfigPath == "tsconfig.json"
envPath == ".env"
envExamplePath == ".env.example"
nextConfigPath == "next.config.js"

\* packageJson.dependencies.<name> || packageJson.devDependencies.<name>, read off
\* the text of a package.json whose only objects are those two
hasDependency(text, name) == Includes(text, "\"" \o name \o "\":")

checkTsyringeDependency(f) ==
  IF packageJsonPath \notin DOMAIN f THEN FALSE
  ELSE hasDependency(f[packageJsonPath], "tsyringe")

\* execSync('npm install tsyringe reflect-metadata --save') when it succeeds:
\* package.json lists both packages
npmInstall(f) ==
  LET added == "    \"reflect-metadata\": \"0.2.2\",\n    \"tsyringe\": \"4.8.0\""
      head == "\"dependencies\": {\n"
  IN  IF packageJsonPath \notin DOMAIN f \/ ~Includes(f[packageJsonPath], head)
      THEN writeFileSync(f, packageJsonPath,
                         "{\n  " \o head \o added \o "\n  }\n}\n")
      ELSE writeFileSync(f, packageJsonPath,
                         ReplaceFirst(f[packageJsonPath], head, head \o added \o ",\n"))

\* JSON.stringify(tsconfig, null, 2) of setupTsyringeConfiguration
tsconfigContent ==
  "{\n"
  \o "  \"compilerOptions\": {\n"
  \o "    \"target\": \"ES2020\",\n"
  \o "    \"lib\": [\n"
  \o "      \"ES2020\",\n"
  \o "      \"DOM\"\n"
  \o "    ],\n"
  \o "    \"module\": \"ESNext\",\n"
  \o "    \"moduleResolution\": \"node\",\n"
  \o "    \"esModuleInterop\": true,\n"
  \o "    \"experimentalDecorators\": true,\n"
  \o "    \"emitDecoratorMetadata\": true,\n"
  \o "    \"skipLibCheck\": true,\n"
  \o "    \"strict\": true,\n"
  \o "    \"noImplicitAny\": false,\n"
  \o "    \"strictNullChecks\": true,\n"
  \o "    \"resolveJsonModule\": true,\n"
  \o "    \"isolatedModules\": true,\n"
  \o "    \"jsx\": \"react-jsx\",\n"
  \o "    \"baseUrl\": \".\",\n"
  \o "    \"paths\": {\n"
  \o "      \"@/*\": [\n"
  \o "        \"src/*\"\n"
  \o "      ]\n"
  \o "    }\n"
  \o "  },\n"
  \o "  \"include\": [\n"
  \o "    \"src/**/*\"\n"
  \o "  ],\n"
  \o "  \"exclude\": [\n"
  \o "    \"node_modules\"\n"
  \o "  ]\n"
  \o "}"

nextConfigContent ==
  "/** @type {import('next').NextConfig} */\n"
  \o "const nextConfig = {\n"
  \o "  reactStrictMode: true,\n"
  \o "  env: {\n"
  \o "    API_BASE_URL: process.env.API_BASE_URL,\n"
  \o "  },\n"
  \o "}\n"
  \o "\n"
  \o "module.exports = nextConfig\n"

\* the compilerOptions of an existing tsconfig.json, re-written by
\* JSON.stringify(tsconfig, null, 2) with the missing decorator flags set last
withCompilerOption(text, flag) ==
  IF Includes(text, "\"" \o flag \o "\": true") THEN text
  ELSE LET close == IndexOf(text, "\n  }")
       IN  IF close = 0 THEN text
           ELSE SubSeq(text, 1, close - 1) \o ",\n    \"" \o flag \o "\": true" \o From(text, close)

apiBaseUrlLine == "API_BASE_URL=http://localhost:3000\n"

createEnvironmentFiles(f) ==
  LET f1 == IF envPath \notin DOMAIN f
            THEN writeFileSync(f, envPath, apiBaseUrlLine)
            ELSE IF ~Includes(f[envPath], "API_BASE_URL")
                 THEN writeFileSync(f, envPath, f[envPath] \o "\n" \o apiBaseUrlLine)
                 ELSE f
      f2 == IF envExamplePath \notin DOMAIN f1
            THEN writeFileSync(f1, envExamplePath, apiBaseUrlLine)
            ELSE f1
  IN  IF /\ nextConfigPath \notin DOMAIN f2
         /\ packageJsonPath \in DOMAIN f2
         /\ hasDependency(f2[packageJsonPath], "next")
      THEN writeFileSync(f2, nextConfigPath, nextConfigContent)
      ELSE f2

setupTsyringeConfiguration(f) ==
  LET f1 == IF tsconfigPath \notin DOMAIN f
            THEN writeFileSync(f, tsconfigPath, tsconfigContent)
            ELSE LET updated == withCompilerOption(
                                  withCompilerOption(f[tsconfigPath], "experimentalDecorators"),
                                  "emitDecoratorMetadata")
                 IN  IF updated # f[tsconfigPath]
                     THEN writeFileSync(f, tsconfigPath, updated)
                     ELSE f
  IN  createEnvironmentFiles(f1)

-----------------------------------------------------------------------------
(* The inputs the model draws from                                         *)

Domains == {"products"}
UsecaseNames == {"get-product", "get-products"}
ApiNames == {"products", "get-product-use-case"}
HttpMethods == {"GET", "DELETE"}

EmptyFs == [p \in {} |-> ""]

\* no prompt has been answered yet
NoAnswers == [p \in {} |-> ""]

\* a prompt's loop ends on the line typed
Answered(prompt, line) == [p \in DOMAIN stdin \cup {prompt} |-> IF p = prompt THEN line ELSE stdin[p]]

\* every path can be written, no other process is at work, nothing has run or
\* been printed yet
NoIo == [unwritable |-> {}, created |-> {}, phase |-> "check", absent |-> FALSE,
         executed |-> <<>>, failed |-> {}, reported |-> {}, raced |-> {}, printed |-> {},
         written |-> {}]

-----------------------------------------------------------------------------
(* main() of create-use-case.js: the names derived from the parameters     *)

usecaseCamelCase == toCamelCase(local.usecaseName)
usecasePascalCase == toPascalCase(local.usecaseName)
usecaseConstCase == toConstCase(local.usecaseName)
usecaseSymbol == usecaseConstCase \o "_USE_CASE"
apiSymbol == toConstCase(local.apiName)
apiPascalCase == toPascalCase(local.apiName)
domainPascalCase == toPascalCase(local.domain)

params == <<local.domain, local.usecaseName, local.apiName, local.httpMethod>>

-----------------------------------------------------------------------------
(* main() of create-use-case.js after the confirmation: one action per     *)
(* generation step, in the order of the code                               *)

\* ensureDirectoryExists(...) for the eight directories
EnsureDirectories ==
  /\ pc = "ensureDirectories"
  /\ LET d1 == ensureDirectoryExists(fs, dirs, "src/domains/" \o local.domain \o "/entities")
         d2 == ensureDirectoryExists(fs, d1, "src/domains/" \o local.domain \o "/usecases")
         d3 == ensureDirectoryExists(fs, d2, "src/domains/_base")
         d4 == ensureDirectoryExists(fs, d3, "src/application/use-cases")
         d5 == ensureDirectoryExists(fs, d4, "src/infrastructure/api/" \o local.apiName)
         d6 == ensureDirectoryExists(fs, d5, "src/infrastructure/utils")
         d7 == ensureDirectoryExists(fs, d6, "src/presenter/actions")
         d8 == ensureDirectoryExists(fs, d7, "src/di")
     IN  dirs' = d8
  /\ pc' = "createBaseFiles"
  /\ UNCHANGED <<fs, local, exitCode, runs, fs0, dirs0, history, program, call, ret, argv, stdin, calls, io>>

\* createBaseUsecaseInterface(); createApiClientUtilFile();
CreateBaseFiles ==
  /\ pc = "createBaseFiles"
  /\ fs' = createApiClientUtilFile(createBaseUsecaseInterface(fs))
  /\ pc' = "createDomainModel"
  /\ UNCHANGED <<dirs, local, exitCode, runs, fs0, dirs0, history, program, call, ret, argv, stdin, calls, io>>

\* if (createDomainModel) createDomainModelFile(domain, domainPascalCase);
CreateDomainModel ==
  /\ pc = "createDomainModel"
  /\ fs' = IF local.createDomainModel
           THEN createDomainModelFile(fs, local.domain, domainPascalCase)
           ELSE fs
  /\ pc' = "updateSymbolsFile"
  /\ UNCHANGED <<dirs, local, exitCode, runs, fs0, dirs0, history, program, call, ret, argv, stdin, calls, io>>

UpdateSymbolsFile ==
  /\ pc = "updateSymbolsFile"
  /\ fs' = updateSymbolsFile(fs, usecaseSymbol, apiSymbol)
  /\ pc' = "createUsecaseInterfaceFile"
  /\ UNCHANGED <<dirs, local, exitCode, runs, fs0, dirs0, history, program, call, ret, argv, stdin, calls, io>>

CreateUsecaseInterfaceFile ==
  /\ pc = "createUsecaseInterfaceFile"
  /\ fs' = createUsecaseInterfaceFile(fs, local.domain, local.usecaseName, usecasePascalCase)
  /\ pc' = "createUsecaseImplementationFile"
  /\ UNCHANGED <<dirs, local, exitCode, runs, fs0, dirs0, history, program, call, ret, argv, stdin, calls, io>>

CreateUsecaseImplementationFile ==
  /\ pc = "createUsecaseImplementationFile"
  /\ fs' = createUsecaseImplementationFile(fs, local.domain, local.usecaseName,
                                           usecasePascalCase, apiPascalCase, apiSymbol)
  /\ pc' = "createOrUpdateApiClientFile"
  /\ UNCHANGED <<dirs, local, exitCode, runs, fs0, dirs0, history, program, call, ret, argv, stdin, calls, io>>

CreateOrUpdateApiClientFile ==
  /\ pc = "createOrUpdateApiClientFile"
  /\ fs' = createOrUpdateApiClientFile(fs, local.domain, local.apiName, local.usecaseName,
                                       usecasePascalCase, local.httpMethod)
  /\ pc' = "updateContainerFile"
  /\ UNCHANGED <<dirs, local, exitCode, runs, fs0, dirs0, history, program, call, ret, argv, stdin, calls, io>>

UpdateContainerFile ==
  /\ pc = "updateContainerFile"
  /\ fs' = updateContainerFile(fs, usecasePascalCase, usecaseSymbol, apiPascalCase,
                               apiSymbol, local.usecaseName)
  /\ pc' = "createActionFile"
  /\ UNCHANGED <<dirs, local, exitCode, runs, fs0, dirs0, history, program, call, ret, argv, stdin, calls, io>>

\* the last step; main() returns and the process ends with code 0
CreateActionFile ==
  /\ pc = "createActionFile"
  /\ fs' = createActionFile(fs, usecaseCamelCase, usecasePascalCase, usecaseSymbol,
                            local.domain, local.usecaseName)
  /\ pc' = "idle"
  /\ exitCode' = 0
  /\ history' = Append(history, params)
  /\ UNCHANGED <<dirs, local, runs, fs0, dirs0, program, call, ret, argv, stdin, calls, io>>

GenerationStep ==
  \/ EnsureDirectories
  \/ CreateBaseFiles
  \/ CreateDomainModel
  \/ UpdateSymbolsFile
  \/ CreateUsecaseInterfaceFile
  \/ CreateUsecaseImplementationFile
  \/ CreateOrUpdateApiClientFile
  \/ UpdateContainerFile
  \/ CreateActionFile

-----------------------------------------------------------------------------
(* Spec: one execution of create-use-case.js, from its launch in a project *)
(* to its exit                                                             *)

\* the command lines tried (process.argv from index 2 on)
Argvs ==
  { <<>>,
    <<"--help">>,
    <<"products", "get-product", "products", "GET", "-h">>,
    <<"products", "get-product">>,
    <<"products", "get-product", "products", "get">>,
    <<"products", "get-product", "products", "PURGE">>,
    <<"Products", "get_product", "products-", "GET">> }

\* what the user types at the prompts
DomainAnswers == {"", "products"}
UsecaseAnswers == {" ", "get-product"}
ApiAnswers == {"", "products"}
MethodAnswers == {"", "post", "PURGE"}
YesNoAnswers == {"yes", "N", "maybe"}

\* the projects the script is launched in
packageJsonPlain == "{\n  \"name\": \"app\",\n  \"dependencies\": {\n    \"react\": \"18.2.0\"\n  }\n}\n"
packageJsonNext == "{\n  \"name\": \"app\",\n  \"dependencies\": {\n    \"next\": \"14.0.0\"\n  }\n}\n"
packageJsonReady == "{\n  \"name\": \"app\",\n  \"dependencies\": {\n    \"tsyringe\": \"4.8.0\"\n  }\n}\n"
tsconfigBare == "{\n  \"compilerOptions\": {\n    \"strict\": true\n  }\n}"

Projects ==
  { EmptyFs,
    [p \in {packageJsonPath} |-> packageJsonPlain],
    [p \in {packageJsonPath, tsconfigPath, envPath} |->
       IF p = packageJsonPath THEN packageJsonNext
       ELSE IF p = tsconfigPath THEN tsconfigBare
       ELSE "PORT=3000\n"],
    [p \in {packageJsonPath, tsconfigPath, envPath} |->
       IF p = packageJsonPath THEN packageJsonReady
       ELSE IF p = tsconfigPath THEN tsconfigContent
       ELSE apiBaseUrlLine] }

Init ==
  /\ fs \in Projects
  /\ dirs = {"."}
  /\ program \in {"create-use-case.js", "generate-usecase.js"}
  /\ pc = "start"
  /\ call = [fn |-> "", path |-> "", usecaseName |-> ""]
  /\ ret = ""
  /\ local = [domain |-> "", usecaseName |-> "", apiName |-> "", httpMethod |-> "",
              createDomainModel |-> FALSE, confirmProceed |-> FALSE]
  /\ exitCode = -1
  /\ runs = 0
  /\ fs0 = fs
  /\ dirs0 = dirs
  /\ history = <<>>
  /\ argv = <<>>
  /\ stdin = NoAnswers
  /\ calls = <<>>
  /\ io = NoIo

\* process.argv[i + 1], or "" for undefined
ArgAt(args, i) == IF i <= Len(args) THEN args[i] ELSE ""

\* a variant of helpRequested that looks at the first argument only; C13 is meant
\* to tell the two apart
helpRequestedFirst(args) == Len(args) > 0 /\ args[1] \in {"--help", "-h"}

\* args.includes('--help') || args.includes('-h')
helpRequested(args) == \E i \in 1..Len(args) : args[i] \in {"--help", "-h"}

\* the launch: --help / -h anywhere prints the usage and exits with 0;
\* otherwise the four parameters are read from the command line
Launch ==
  /\ pc = "start"
  /\ program = "create-use-case.js"
  /\ \E args \in Argvs :
       /\ argv' = args
       /\ IF helpRequested(args)
          THEN /\ pc' = "exited"
               /\ exitCode' = 0
               /\ UNCHANGED local
          ELSE /\ pc' = "promptDomain"
               /\ local' = [local EXCEPT !.domain = ArgAt(args, 1),
                                         !.usecaseName = ArgAt(args, 2),
                                         !.apiName = ArgAt(args, 3),
                                         !.httpMethod = ArgAt(args, 4)]
               /\ UNCHANGED exitCode
  /\ runs' = runs + 1
  /\ UNCHANGED <<fs, dirs, fs0, dirs0, history, program, call, ret, stdin, calls, io>>

\* if (!domain) do { domain = await prompt(...) } while (!validateParam(domain))
\* : one answer per step, asked again while the answer is invalid
PromptDomain ==
  /\ pc = "promptDomain"
  /\ IF local.domain # ""
     THEN pc' = "promptUsecaseName" /\ UNCHANGED <<local, stdin>>
     ELSE \E answer \in DomainAnswers :
            /\ local' = [local EXCEPT !.domain = IF validateParam(answer) THEN answer ELSE ""]
            /\ pc' = IF validateParam(answer) THEN "promptUsecaseName" ELSE "promptDomain"
            /\ stdin' = IF validateParam(answer) THEN Answered("domain", answer) ELSE stdin
  /\ UNCHANGED <<fs, dirs, exitCode, runs, fs0, dirs0, history, program, call, ret, argv, calls, io>>

PromptUsecaseName ==
  /\ pc = "promptUsecaseName"
  /\ IF local.usecaseName # ""
     THEN pc' = "promptApiName" /\ UNCHANGED <<local, stdin>>
     ELSE \E answer \in UsecaseAnswers :
            /\ local' = [local EXCEPT !.usecaseName = IF validateParam(answer) THEN answer ELSE ""]
            /\ pc' = IF validateParam(answer) THEN "promptApiName" ELSE "promptUsecaseName"
            /\ stdin' = IF validateParam(answer) THEN Answered("usecaseName", answer) ELSE stdin
  /\ UNCHANGED <<fs, dirs, exitCode, runs, fs0, dirs0, history, program, call, ret, argv, calls, io>>

\* a blank answer leaves the loop with `httpMethod = domain; break;`
PromptApiName ==
  /\ pc = "promptApiName"
  /\ IF local.apiName # ""
     THEN UNCHANGED <<local, stdin>>
     ELSE \E answer \in ApiAnswers :
            /\ local' = IF answer = "" \/ trim(answer) = ""
                        THEN [local EXCEPT !.apiName = answer, !.httpMethod = local.domain]
                        ELSE [local EXCEPT !.apiName = answer]
            /\ stdin' = Answered("apiName", answer)
  /\ pc' = "promptHttpMethod"
  /\ UNCHANGED <<fs, dirs, exitCode, runs, fs0, dirs0, history, program, call, ret, argv, calls, io>>

\* a blank answer is GET; any other answer must pass validateHttpMethod
PromptHttpMethod ==
  /\ pc = "promptHttpMethod"
  /\ IF local.httpMethod # ""
     THEN pc' = "checkTsyringe" /\ UNCHANGED <<local, stdin>>
     ELSE \E answer \in MethodAnswers :
            IF answer = "" \/ trim(answer) = ""
            THEN /\ local' = [local EXCEPT !.httpMethod = "GET"]
                 /\ pc' = "checkTsyringe"
                 /\ stdin' = Answered("httpMethod", answer)
            ELSE IF validateHttpMethod(answer)
                 THEN /\ local' = [local EXCEPT !.httpMethod = answer]
                      /\ pc' = "checkTsyringe"
                      /\ stdin' = Answered("httpMethod", answer)
                 ELSE UNCHANGED <<local, stdin>> /\ pc' = "promptHttpMethod"
  /\ UNCHANGED <<fs, dirs, exitCode, runs, fs0, dirs0, history, program, call, ret, argv, calls, io>>

\* hasTsyringe = checkTsyringeDependency(); without it the user is asked whether to
\* install it, and on yes npm runs (it succeeds or throws) and
\* setupTsyringeConfiguration() follows a successful install
CheckTsyringe ==
  /\ pc = "checkTsyringe"
  /\ IF checkTsyringeDependency(fs)
     THEN pc' = "promptDomainModel" /\ UNCHANGED <<fs, dirs>>
     ELSE \E answer \in YesNoAnswers, npmSucceeds \in BOOLEAN :
            /\ pc' = IF validateYesNo(answer) = "null" THEN "checkTsyringe"
                     ELSE "promptDomainModel"
            /\ IF validateYesNo(answer) = "true" /\ npmSucceeds
               THEN /\ fs' = setupTsyringeConfiguration(npmInstall(fs))
                    /\ dirs' = dirs \cup {"node_modules"}
               ELSE UNCHANGED <<fs, dirs>>
  /\ UNCHANGED <<local, exitCode, runs, fs0, dirs0, history, program, call, ret, argv, stdin, calls, io>>

\* the domain-model question (skipped when the entity file exists), then
\* httpMethod = httpMethod.toUpperCase()
PromptDomainModel ==
  /\ pc = "promptDomainModel"
  /\ IF existsSync(fs, dirs, modelPath(local.domain))
     THEN /\ local' = [local EXCEPT !.createDomainModel = FALSE,
                                    !.httpMethod = toUpperCase(local.httpMethod)]
          /\ pc' = "confirm"
     ELSE \E answer \in YesNoAnswers :
            IF validateYesNo(answer) = "null"
            THEN UNCHANGED local /\ pc' = "promptDomainModel"
            ELSE /\ local' = [local EXCEPT !.createDomainModel = (validateYesNo(answer) = "true"),
                                           !.httpMethod = toUpperCase(local.httpMethod)]
                 /\ pc' = "confirm"
  /\ UNCHANGED <<fs, dirs, exitCode, runs, fs0, dirs0, history, program, call, ret, argv, stdin, calls, io>>

\* the summary is printed and the user is asked to proceed; on no the process
\* exits with 0
Confirm ==
  /\ pc = "confirm"
  /\ \E answer \in YesNoAnswers :
       /\ local' = [local EXCEPT !.confirmProceed = (validateYesNo(answer) = "true")]
       /\ pc' = CASE validateYesNo(answer) = "null" -> "confirm"
                  [] validateYesNo(answer) = "false" -> "exited"
                  [] OTHER -> "ensureDirectories"
       /\ exitCode' = IF validateYesNo(answer) = "false" THEN 0 ELSE exitCode
  /\ UNCHANGED <<fs, dirs, runs, fs0, dirs0, history, program, call, ret, argv, stdin, calls, io>>

-----------------------------------------------------------------------------
(* generate-usecase.js: the other command-line script, in the same Spec     *)

\* the command lines tried
CliArgvs ==
  { <<>>,
    <<"--help">>,
    <<"--domain", "products", "--usecase", "get-product", "--api", "products", "--method", "GET", "-h">>,
    <<"--domain", "products", "--usecase", "get-product", "--api", "products", "--method", "delete">>,
    <<"-d", "products", "-u", "get-product", "-a", "products", "-m", "delete">>,
    <<"--domain", "Products", "--usecase", "get-product", "--api", "products", "--method", "GET">>,
    <<"--domain", "products", "--usecase", "get-product", "--api", "products", "--method", "PURGE">>,
    <<"--domain", "products", "--usecase", "get-product", "--api", "products">>,
    <<"delete", "--domain", "products", "--usecase", "get-product", "--api", "products">>,
    <<"get">> }

\* args.indexOf(flag) + 1: the position of flag counted from 1, 0 when it is absent
PositionOf(args, flag) ==
  IF \E i \in 1..Len(args) : args[i] = flag
  THEN MinOf({i \in 1..Len(args) : args[i] = flag})
  ELSE 0

\* args[args.indexOf(long) + 1] || args[args.indexOf(short) + 1]; the first element
\* of args is at position 1 here, so an absent flag reads args[0], the first argument
OptionValue(args, long, short) ==
  IF ArgAt(args, PositionOf(args, long) + 1) # ""
  THEN ArgAt(args, PositionOf(args, long) + 1)
  ELSE ArgAt(args, PositionOf(args, short) + 1)

\* const options = { domain: ..., usecaseName: ..., apiName: ..., httpMethod: ... }
parseArgs(args) ==
  [domain |-> OptionValue(args, "--domain", "-d"),
   usecaseName |-> OptionValue(args, "--usecase", "-u"),
   apiName |-> OptionValue(args, "--api", "-a"),
   httpMethod |-> OptionValue(args, "--method", "-m")]

\* isValid after the four tests
isValid(options) ==
  /\ options.domain # "" /\ validateKebabCase(options.domain)
  /\ options.usecaseName # "" /\ validateKebabCase(options.usecaseName)
  /\ options.apiName # "" /\ validateKebabCase(options.apiName)
  /\ options.httpMethod # "" /\ validateHttpMethod(options.httpMethod)

\* the object passed to generateUsecase
requestOf(options) == [options EXCEPT !.httpMethod = toUpperCase(options.httpMethod)]

\* console.log('\n✅ Files generated successfully!') and
\* console.error('\n❌ Error generating files:', error.message)
successMessage == "Files generated successfully!"
errorMessage(message) == "Error generating files: " \o message

\* what the try/catch around generateUsecase prints for its result
Printed(result) ==
  IF result.thrown = "" THEN successMessage ELSE errorMessage(result.thrown)

\* try { await generateUsecase(request) ... } catch (error) { ... }: the outcome
\* is printed; the process ends with 0, or with caught when the call threw
\* (process.exit(1) in argument mode, nothing in promptForInput)
TryGenerateUsecase(request, result, caught) ==
  /\ calls' = Append(calls, request)
  /\ fs' = result.fs
  /\ dirs' = result.dirs
  /\ ret' = result.thrown
  /\ io' = [io EXCEPT !.printed = @ \cup {Printed(result)}]
  /\ exitCode' = IF result.thrown = "" THEN 0 ELSE caught

\* the script's top level: with arguments it prints the usage for --help / -h, or
\* parses and validates the options and, when they are valid, calls
\* generateUsecase inside try/catch (exit 0, or 1 when it throws), else exits
\* with 1; without arguments it starts promptForInput()
CliArguments ==
  /\ program = "generate-usecase.js"
  /\ pc = "start"
  /\ \E args \in CliArgvs :
       /\ argv' = args
       /\ IF Len(args) = 0
          THEN /\ pc' = "promptForInput.domain"
               /\ UNCHANGED <<fs, dirs, local, exitCode, calls, ret, io>>
          ELSE IF helpRequested(args)
          THEN /\ pc' = "exited"
               /\ exitCode' = 0
               /\ UNCHANGED <<fs, dirs, local, calls, ret, io>>
          ELSE LET options == parseArgs(args)
               IN  /\ pc' = "exited"
                   /\ local' = [local EXCEPT !.domain = options.domain,
                                             !.usecaseName = options.usecaseName,
                                             !.apiName = options.apiName,
                                             !.httpMethod = options.httpMethod]
                   /\ IF isValid(options)
                      THEN TryGenerateUsecase(requestOf(options),
                                              generateUsecase(fs, dirs, requestOf(options)), 1)
                      ELSE /\ exitCode' = 1
                           /\ UNCHANGED <<fs, dirs, calls, ret, io>>
  /\ runs' = runs + 1
  /\ UNCHANGED <<fs0, dirs0, history, program, call, stdin>>

\* while (!domain || !validateKebabCase(domain)) domain = await promptQuestion(...)
PromptForInputDomain ==
  /\ pc = "promptForInput.domain"
  /\ \E answer \in DomainAnswers :
       IF validateKebabCase(answer)
       THEN /\ local' = [local EXCEPT !.domain = answer]
            /\ stdin' = Answered("domain", answer)
            /\ pc' = "promptForInput.usecaseName"
       ELSE UNCHANGED <<local, stdin, pc>>
  /\ UNCHANGED <<fs, dirs, exitCode, runs, fs0, dirs0, history, program, call, ret, argv, calls, io>>

PromptForInputUsecaseName ==
  /\ pc = "promptForInput.usecaseName"
  /\ \E answer \in UsecaseAnswers :
       IF validateKebabCase(answer)
       THEN /\ local' = [local EXCEPT !.usecaseName = answer]
            /\ stdin' = Answered("usecaseName", answer)
            /\ pc' = "promptForInput.apiName"
       ELSE UNCHANGED <<local, stdin, pc>>
  /\ UNCHANGED <<fs, dirs, exitCode, runs, fs0, dirs0, history, program, call, ret, argv, calls, io>>

PromptForInputApiName ==
  /\ pc = "promptForInput.apiName"
  /\ \E answer \in ApiAnswers :
       IF validateKebabCase(answer)
       THEN /\ local' = [local EXCEPT !.apiName = answer]
            /\ stdin' = Answered("apiName", answer)
            /\ pc' = "promptForInput.httpMethod"
       ELSE UNCHANGED <<local, stdin, pc>>
  /\ UNCHANGED <<fs, dirs, exitCode, runs, fs0, dirs0, history, program, call, ret, argv, calls, io>>

PromptForInputHttpMethod ==
  /\ pc = "promptForInput.httpMethod"
  /\ \E answer \in MethodAnswers :
       IF answer # "" /\ validateHttpMethod(answer)
       THEN /\ local' = [local EXCEPT !.httpMethod = answer]
            /\ stdin' = Answered("httpMethod", answer)
            /\ pc' = "promptForInput.confirm"
       ELSE UNCHANGED <<local, stdin, pc>>
  /\ UNCHANGED <<fs, dirs, exitCode, runs, fs0, dirs0, history, program, call, ret, argv, calls, io>>

\* the summary and 'Generate files? (y/n)': on y or yes generateUsecase is called
\* inside try/catch, which only prints the error; rl.close() then lets the process
\* end, with exit code 0
PromptForInputConfirm ==
  /\ pc = "promptForInput.confirm"
  /\ \E confirm \in YesNoAnswers :
       LET options == [domain |-> local.domain, usecaseName |-> local.usecaseName,
                       apiName |-> local.apiName, httpMethod |-> local.httpMethod]
       IN  /\ stdin' = Answered("confirm", confirm)
           /\ local' = [local EXCEPT !.confirmProceed = (toLowerCase(confirm) \in {"y", "yes"})]
           /\ IF toLowerCase(confirm) \in {"y", "yes"}
              THEN TryGenerateUsecase(requestOf(options),
                                      generateUsecase(fs, dirs, requestOf(options)), 0)
              ELSE /\ exitCode' = 0
                   /\ UNCHANGED <<fs, dirs, calls, ret, io>>
  /\ pc' = "exited"
  /\ UNCHANGED <<runs, fs0, dirs0, history, program, call, argv>>

GenerateUsecaseCli ==
  \/ CliArguments
  \/ PromptForInputDomain
  \/ PromptForInputUsecaseName
  \/ PromptForInputApiName
  \/ PromptForInputHttpMethod
  \/ PromptForInputConfirm

Next ==
  \/ Launch
  \/ PromptDomain
  \/ PromptUsecaseName
  \/ PromptApiName
  \/ PromptHttpMethod
  \/ CheckTsyringe
  \/ PromptDomainModel
  \/ Confirm
  \/ GenerationStep
  \/ GenerateUsecaseCli

Spec == Init /\ [][Next]_vars

-----------------------------------------------------------------------------
(* A client of the library calls its exported functions one at a time       *)

MaxCalls == 3

LibDirs == {"src/domains/products/usecases", "src/application/use-cases",
            "src/infrastructure/api/products", "src/presenter/actions"}
LibPaths == {"src/application/use-cases/get-product.usecase.ts", "notes.txt"}
LibContents == {"", "// notes\n"}

\* what every library call does besides its own effect
LibCall(fn, path, usecaseName, result) ==
  /\ program = "library"
  /\ runs < MaxCalls
  /\ runs' = runs + 1
  /\ fs0' = fs
  /\ dirs0' = dirs
  /\ call' = [fn |-> fn, path |-> path, usecaseName |-> usecaseName]
  /\ fs' = result.fs
  /\ ret' = result.ret
  /\ UNCHANGED <<dirs, pc, local, exitCode, history, program, argv, stdin, calls, io>>

LibEnsureDirectoryExists ==
  \E dirPath \in LibDirs :
    /\ program = "library"
    /\ runs < MaxCalls
    /\ runs' = runs + 1
    /\ fs0' = fs
    /\ dirs0' = dirs
    /\ call' = [fn |-> "ensureDirectoryExists", path |-> dirPath, usecaseName |-> ""]
    /\ dirs' = ensureDirectoryExists(fs, dirs, dirPath)
    /\ ret' = "undefined"
    /\ UNCHANGED <<fs, pc, local, exitCode, history, program, argv, stdin, calls, io>>

LibWriteFileIfNotExists ==
  \E filePath \in LibPaths, content \in LibContents :
    LibCall("writeFileIfNotExists", filePath, "",
            writeFileIfNotExists(fs, dirs, filePath, content))

LibCreateUsecaseInterfaceFile ==
  \E domain \in Domains, usecaseName \in UsecaseNames :
    LibCall("createUsecaseInterfaceFile", interfacePath(domain, usecaseName), usecaseName,
            libCreateUsecaseInterfaceFile(fs, dirs, domain, usecaseName,
                                          toPascalCase(usecaseName)))

LibCreateUsecaseImplementationFile ==
  \E domain \in Domains, usecaseName \in UsecaseNames, apiName \in ApiNames :
    LibCall("createUsecaseImplementationFile", implementationPath(usecaseName), usecaseName,
            libCreateUsecaseImplementationFile(fs, dirs, domain, usecaseName,
                                               toPascalCase(usecaseName),
                                               toPascalCase(apiName), toConstCase(apiName)))

LibCreateOrUpdateApiClientFile ==
  \E domain \in Domains, usecaseName \in UsecaseNames, httpMethod \in HttpMethods :
    LibCall("createOrUpdateApiClientFile", apiClientPath("products"), usecaseName,
            libCreateOrUpdateApiClientFile(fs, dirs, domain, "products", usecaseName,
                                           toPascalCase(usecaseName), httpMethod))

LibCreateActionFile ==
  \E domain \in Domains, usecaseName \in UsecaseNames :
    LibCall("createActionFile", actionPath(toCamelCase(usecaseName)), usecaseName,
            libCreateActionFile(fs, dirs, toCamelCase(usecaseName), toPascalCase(usecaseName),
                                toConstCase(usecaseName) \o "_USE_CASE", domain, usecaseName))

LibraryCall ==
  \/ LibEnsureDirectoryExists
  \/ LibWriteFileIfNotExists
  \/ LibCreateUsecaseInterfaceFile
  \/ LibCreateUsecaseImplementationFile
  \/ LibCreateOrUpdateApiClientFile
  \/ LibCreateActionFile

-----------------------------------------------------------------------------
(* SpecGen: generate runs one after the other on a project that starts     *)
(* empty.  A run is create-use-case.js launched with its four parameters   *)
(* on the command line and the final confirmation answered with yes.       *)

InitGen ==
  /\ fs = EmptyFs
  /\ dirs = {"."}
  /\ program \in {"create-use-case.js", "library"}
  /\ pc = "idle"
  /\ call = [fn |-> "", path |-> "", usecaseName |-> ""]
  /\ ret = ""
  /\ local = [domain |-> "", usecaseName |-> "", apiName |-> "", httpMethod |-> "",
              createDomainModel |-> FALSE, confirmProceed |-> FALSE]
  /\ exitCode = -1
  /\ runs = 0
  /\ fs0 = EmptyFs
  /\ dirs0 = {"."}
  /\ history = <<>>
  /\ argv = <<>>
  /\ stdin = NoAnswers
  /\ calls = <<>>
  /\ io = NoIo

\* main() up to the confirmation (it writes nothing when tsyringe is not installed
\* by it): the parameters are read, the HTTP method is upper-cased, the user is
\* asked about the domain model only when its file does not exist
GenerateRun ==
  /\ program = "create-use-case.js"
  /\ pc = "idle"
  /\ runs < MaxRuns
  /\ \E domain \in Domains, usecaseName \in UsecaseNames, apiName \in ApiNames,
        httpMethod \in HttpMethods, answer \in BOOLEAN :
       local' = [domain |-> domain, usecaseName |-> usecaseName, apiName |-> apiName,
                 httpMethod |-> toUpperCase(httpMethod),
                 createDomainModel |-> IF existsSync(fs, dirs, modelPath(domain))
                                       THEN FALSE ELSE answer,
                 confirmProceed |-> TRUE]
  /\ pc' = "ensureDirectories"
  /\ runs' = runs + 1
  /\ fs0' = fs
  /\ dirs0' = dirs
  /\ exitCode' = -1
  /\ UNCHANGED <<fs, dirs, history, program, call, ret, argv, stdin, calls, io>>

NextGen == GenerateRun \/ GenerationStep \/ LibraryCall

SpecGen == InitGen /\ [][NextGen]_vars

-----------------------------------------------------------------------------
(* SpecBody: generateApiMethodBody (of create-use-case.js and of            *)
(* file-generators.js) applied to a use-case name and an HTTP method        *)

BodyUsecaseNames == {"get-product", "get-products", "list", "create-user-account", "a-1-b", "x9"}
BodyHttpMethods == {"GET", "get", "POST", "Post", "PUT", "put", "PATCH", "pAtCh",
                    "DELETE", "delete", "PURGE", "options", ""}

InitBody ==
  /\ fs = EmptyFs
  /\ dirs = {"."}
  /\ program = "library"
  /\ pc = "idle"
  /\ call = [fn |-> "", path |-> "", usecaseName |-> ""]
  /\ ret = ""
  /\ \E usecaseName \in BodyUsecaseNames, httpMethod \in BodyHttpMethods :
       local = [domain |-> "", usecaseName |-> usecaseName, apiName |-> "",
                httpMethod |-> httpMethod, createDomainModel |-> FALSE,
                confirmProceed |-> FALSE]
  /\ exitCode = -1
  /\ runs = 0
  /\ fs0 = EmptyFs
  /\ dirs0 = {"."}
  /\ history = <<>>
  /\ argv = <<>>
  /\ stdin = NoAnswers
  /\ calls = <<>>
  /\ io = NoIo

\* generateApiMethodBody(usecaseName, usecasePascalCase, httpMethod) of create-use-case.js
GenerateApiMethodBody ==
  /\ pc = "idle"
  /\ call' = [fn |-> "generateApiMethodBody", path |-> "", usecaseName |-> local.usecaseName]
  /\ ret' = generateApiMethodBody(local.usecaseName, usecasePascalCase, local.httpMethod)
  /\ pc' = "returned"
  /\ UNCHANGED <<fs, dirs, local, exitCode, runs, fs0, dirs0, history, program, argv, stdin, calls, io>>

\* generateApiMethodBody of file-generators.js
LibGenerateApiMethodBody ==
  /\ pc = "idle"
  /\ call' = [fn |-> "lib.generateApiMethodBody", path |-> "", usecaseName |-> local.usecaseName]
  /\ ret' = libGenerateApiMethodBody(local.usecaseName, usecasePascalCase, local.httpMethod)
  /\ pc' = "returned"
  /\ UNCHANGED <<fs, dirs, local, exitCode, runs, fs0, dirs0, history, program, argv, stdin, calls, io>>

NextBody == GenerateApiMethodBody \/ LibGenerateApiMethodBody

SpecBody == InitBody /\ [][NextBody]_vars

-----------------------------------------------------------------------------
(* SpecEnv: the generation steps of one create-use-case.js run in a        *)
(* project as it is found: registries written by hand, paths that cannot   *)
(* be written, another process creating files.  A step that looks for its  *)
(* file before writing it is two steps of the process, fs.existsSync and   *)
(* fs.writeFileSync, and the other process may act between them.           *)

MaxForeign == 1

\* the request of the run: `create-use-case.js products get-product products GET`,
\* the domain model wanted, the confirmation answered with yes
EnvRequest == [domain |-> "products", usecaseName |-> "get-product", apiName |-> "products",
               httpMethod |-> "GET", createDomainModel |-> TRUE, confirmProceed |-> TRUE]

\* a symbols.ts that has neither the API nor the USE_CASES group
symbolsByHand == "export const BASE = {\n  API_CLIENT: Symbol('API_CLIENT'),\n};\n"

\* a symbols.ts that has the API group only
symbolsApiOnly ==
  "export const BASE = {\n  API_CLIENT: Symbol('API_CLIENT'),\n};\n\n"
  \o "export const API = {\n  ORDERS: Symbol('ORDERS'),\n};\n"

\* a container.ts that does not end with `export { container };`
containerByHand == "import 'reflect-metadata';\nimport { container } from 'tsyringe';\n\nexport default container;\n"

\* the registries as an earlier run of the same request left them
symbolsOfEarlierRun == symbolsContent("PRODUCTS", "GET_PRODUCT_USE_CASE")
containerOfEarlierRun ==
  containerContent("GetProduct", "GET_PRODUCT_USE_CASE", "Products", "PRODUCTS",
                   "get-product", "products")

EnvProjects ==
  { EmptyFs,
    [p \in {symbolsPath, containerPath} |->
       IF p = symbolsPath THEN symbolsByHand ELSE containerByHand],
    [p \in {symbolsPath, containerPath} |->
       IF p = symbolsPath THEN symbolsApiOnly ELSE containerByHand],
    [p \in {symbolsPath, containerPath} |->
       IF p = symbolsPath THEN symbolsOfEarlierRun ELSE containerOfEarlierRun] }

\* the paths on which fs.writeFileSync throws (EACCES), at most one per run
EnvFaults ==
  { {}, {symbolsPath}, {interfacePath(EnvRequest.domain, EnvRequest.usecaseName)},
    {containerPath} }

\* what the other process writes
foreignContent == "// written by another process\n"

EnvSteps == {"updateSymbolsFile", "createUsecaseInterfaceFile",
             "createUsecaseImplementationFile", "createOrUpdateApiClientFile",
             "updateContainerFile", "createActionFile"}

\* the file a step looks for and writes
TargetOf(step) ==
  CASE step = "updateSymbolsFile" -> symbolsPath
    [] step = "createUsecaseInterfaceFile" -> interfacePath(local.domain, local.usecaseName)
    [] step = "createUsecaseImplementationFile" -> implementationPath(local.usecaseName)
    [] step = "createOrUpdateApiClientFile" -> apiClientPath(local.apiName)
    [] step = "updateContainerFile" -> containerPath
    [] step = "createActionFile" -> actionPath(usecaseCamelCase)

InitEnv ==
  /\ fs \in EnvProjects
  /\ dirs = IF fs = EmptyFs THEN {"."} ELSE {".", "src", "src/di"}
  /\ program = "create-use-case.js"
  /\ pc = "ensureDirectories"
  /\ call = [fn |-> "", path |-> "", usecaseName |-> ""]
  /\ ret = ""
  /\ local = EnvRequest
  /\ exitCode = -1
  /\ runs = 1
  /\ fs0 = fs
  /\ dirs0 = dirs
  /\ history = <<>>
  /\ argv = <<EnvRequest.domain, EnvRequest.usecaseName, EnvRequest.apiName,
              EnvRequest.httpMethod>>
  /\ stdin = NoAnswers
  /\ calls = <<>>
  /\ \E unwritable \in EnvFaults : io = [NoIo EXCEPT !.unwritable = unwritable]

\* the file system without a path
Without(f, p) == [q \in DOMAIN f \ {p} |-> f[q]]

\* the file system as the step in progress takes it to be: a file found absent
\* by fs.existsSync is absent
Believed(target) == IF io.absent THEN Without(fs, target) ELSE fs

\* fs.existsSync(target) of a step
ExistsSync(step) ==
  /\ pc = step
  /\ io.phase = "check"
  /\ io' = [io EXCEPT !.phase = "write",
                      !.absent = TargetOf(step) \notin DOMAIN fs,
                      !.executed = Append(@, step)]
  /\ UNCHANGED <<fs, dirs, local, exitCode, runs, fs0, dirs0, history, program, call, ret,
                 argv, stdin, calls, pc>>

\* the process ends: main() has returned (code 0, set by nobody) or
\* main().catch has called process.exit(1)
Finish(code) ==
  /\ pc' = "exited"
  /\ exitCode' = code
  /\ history' = IF code = 0 THEN Append(history, params) ELSE history

\* the rest of a step: `writes` tells whether it calls fs.writeFileSync, `written`
\* is the file system after that call (io.written keeps the paths of the calls), `caught` tells whether the step has a
\* try/catch of its own, `next` is the step after it ("" after the last one)
WriteFileSync(step, writes, written, caught, next) ==
  /\ pc = step
  /\ io.phase = "write"
  /\ IF writes /\ TargetOf(step) \in io.unwritable
     THEN /\ fs' = fs
          /\ io' = [io EXCEPT !.phase = "check", !.failed = @ \cup {step},
                              !.reported = @ \cup {step}]
          /\ IF caught /\ next # ""
             THEN pc' = next /\ UNCHANGED <<exitCode, history>>
             ELSE Finish(IF caught THEN 0 ELSE 1)
     ELSE /\ fs' = IF writes THEN written ELSE fs
          /\ io' = [io EXCEPT !.phase = "check",
                              !.written = IF writes THEN @ \cup {TargetOf(step)} ELSE @]
          /\ IF next # ""
             THEN pc' = next /\ UNCHANGED <<exitCode, history>>
             ELSE Finish(0)
  /\ UNCHANGED <<dirs, local, runs, fs0, dirs0, program, call, ret, argv, stdin, calls>>

\* updateSymbolsFile(usecaseSymbol, apiSymbol): all of it inside try/catch
EnvUpdateSymbolsFile ==
  \/ ExistsSync("updateSymbolsFile")
  \/ WriteFileSync("updateSymbolsFile", TRUE,
                   updateSymbolsFile(Believed(symbolsPath), usecaseSymbol, apiSymbol),
                   TRUE, "createUsecaseInterfaceFile")

EnvCreateUsecaseInterfaceFile ==
  \/ ExistsSync("createUsecaseInterfaceFile")
  \/ WriteFileSync("createUsecaseInterfaceFile", io.absent,
                   createUsecaseInterfaceFile(
                     Believed(interfacePath(local.domain, local.usecaseName)),
                     local.domain, local.usecaseName, usecasePascalCase),
                   FALSE, "createUsecaseImplementationFile")

EnvCreateUsecaseImplementationFile ==
  \/ ExistsSync("createUsecaseImplementationFile")
  \/ WriteFileSync("createUsecaseImplementationFile", io.absent,
                   createUsecaseImplementationFile(
                     Believed(implementationPath(local.usecaseName)),
                     local.domain, local.usecaseName, usecasePascalCase, apiPascalCase,
                     apiSymbol),
                   FALSE, "createOrUpdateApiClientFile")

\* an existing client is written when it has no method of the use case's name
EnvCreateOrUpdateApiClientFile ==
  \/ ExistsSync("createOrUpdateApiClientFile")
  \/ WriteFileSync("createOrUpdateApiClientFile",
                   \/ io.absent
                   \/ ~Includes(fs[apiClientPath(local.apiName)],
                                "async " \o toCamelCase(local.usecaseName)),
                   createOrUpdateApiClientFile(
                     Believed(apiClientPath(local.apiName)),
                     local.domain, local.apiName, local.usecaseName, usecasePascalCase,
                     local.httpMethod),
                   FALSE, "updateContainerFile")

\* updateContainerFile(...): all of it inside try/catch
EnvUpdateContainerFile ==
  \/ ExistsSync("updateContainerFile")
  \/ WriteFileSync("updateContainerFile", TRUE,
                   updateContainerFile(Believed(containerPath), usecasePascalCase,
                                       usecaseSymbol, apiPascalCase, apiSymbol,
                                       local.usecaseName),
                   TRUE, "createActionFile")

EnvCreateActionFile ==
  \/ ExistsSync("createActionFile")
  \/ WriteFileSync("createActionFile", io.absent,
                   createActionFile(Believed(actionPath(usecaseCamelCase)),
                                    usecaseCamelCase, usecasePascalCase, usecaseSymbol,
                                    local.domain, local.usecaseName),
                   FALSE, "")

\* another process creates a file the run has yet to write
OtherProcess ==
  /\ pc \in EnvSteps
  /\ Cardinality(io.created) < MaxForeign
  /\ \E step \in EnvSteps :
       /\ TargetOf(step) \notin DOMAIN fs
       /\ fs' = writeFileSync(fs, TargetOf(step), foreignContent)
       /\ io' = [io EXCEPT !.created = @ \cup {TargetOf(step)},
                           !.raced = IF step = pc /\ io.phase = "write" /\ io.absent
                                     THEN @ \cup {step} ELSE @]
  /\ UNCHANGED <<dirs, local, exitCode, runs, fs0, dirs0, history, program, call, ret,
                 argv, stdin, calls, pc>>

NextEnv ==
  \/ EnsureDirectories
  \/ CreateBaseFiles
  \/ CreateDomainModel
  \/ EnvUpdateSymbolsFile
  \/ EnvCreateUsecaseInterfaceFile
  \/ EnvCreateUsecaseImplementationFile
  \/ EnvCreateOrUpdateApiClientFile
  \/ EnvUpdateContainerFile
  \/ EnvCreateActionFile
  \/ OtherProcess

SpecEnv == InitEnv /\ [][NextEnv]_vars

-----------------------------------------------------------------------------
(* SpecNames: the case conversions of string-utils.js applied to two       *)
(* identifiers, every string of the pattern of validateKebabCase over a    *)
(* small alphabet and up to a bounded length                               *)

MaxIdLen == 3

IdChars == {"a", "b", "1", "-"}

\* the strings over IdChars of length n at most
RECURSIVE Words(_)
Words(n) ==
  IF n = 0 THEN {""}
  ELSE Words(n - 1) \cup {w \o c : w \in Words(n - 1), c \in IdChars}

\* the strings /^[a-z][a-z0-9]*(-[a-z0-9]+)*$/ accepts
Identifiers == {w \in Words(MaxIdLen) : validateKebabCase(w)}

InitNames ==
  /\ fs = EmptyFs
  /\ dirs = {"."}
  /\ program = "library"
  /\ pc = "idle"
  /\ call = [fn |-> "", path |-> "", usecaseName |-> ""]
  /\ ret = ""
  /\ \E a \in Identifiers, b \in Identifiers :
       local = [domain |-> "", usecaseName |-> a, apiName |-> b, httpMethod |-> "",
                createDomainModel |-> FALSE, confirmProceed |-> FALSE]
  /\ exitCode = -1
  /\ runs = 0
  /\ fs0 = EmptyFs
  /\ dirs0 = {"."}
  /\ history = <<>>
  /\ argv = <<>>
  /\ stdin = NoAnswers
  /\ calls = <<>>
  /\ io = NoIo

\* a conversion called on the first identifier, then on the second; calls keeps
\* the argument and the result of each call
Converted(fn, first, second) ==
  /\ pc = "idle"
  /\ calls' = <<[fn |-> fn, arg |-> local.usecaseName, result |-> first],
                [fn |-> fn, arg |-> local.apiName, result |-> second]>>
  /\ pc' = "returned"
  /\ UNCHANGED <<fs, dirs, local, exitCode, runs, fs0, dirs0, history, program, call, ret,
                 argv, stdin, io>>

ToConstCase ==
  Converted("toConstCase", toConstCase(local.usecaseName), toConstCase(local.apiName))

ToCamelCase ==
  Converted("toCamelCase", toCamelCase(local.usecaseName), toCamelCase(local.apiName))

ToPascalCase ==
  Converted("toPascalCase", toPascalCase(local.usecaseName), toPascalCase(local.apiName))

\* const apiName = apiPascalCase.replace(/([a-z0-9])([A-Z])/g, '$1-$2').toLowerCase()
\* of createUsecaseImplementationFile and updateContainerFile, on the PascalCase
\* name their callers pass
ApiNameOfPascalCase ==
  Converted("apiNameOfPascalCase", PascalToKebab(toPascalCase(local.usecaseName)),
            PascalToKebab(toPascalCase(local.apiName)))

NextNames == ToConstCase \/ ToCamelCase \/ ToPascalCase \/ ApiNameOfPascalCase

SpecNames == InitNames /\ [][NextNames]_vars

-----------------------------------------------------------------------------
(* SpecReg: the registry functions of use-case-generator.js called one     *)
(* after the other by a user of the library, on a project without          *)
(* registries or with a symbols.ts written by hand                         *)

RegUsecaseNames == {"get-product", "get-products", "list-get-product"}

\* a symbols.ts whose API group has the key GET_PRODUCTS and whose USE_CASES
\* group has the key LIST_GET_PRODUCT
symbolsWithNeighbours ==
  "export const API = {\n  GET_PRODUCTS: Symbol('GET_PRODUCTS'),\n}\n\n"
  \o "export const USE_CASES = {\n  LIST_GET_PRODUCT: Symbol('LIST_GET_PRODUCT'),\n}\n"

InitReg ==
  /\ \/ fs = EmptyFs /\ dirs \in {{"."}, {".", "src", "src/di"}}
     \/ fs = [p \in {symbolsPath} |-> symbolsWithNeighbours] /\ dirs = {".", "src", "src/di"}
  /\ program = "library"
  /\ pc = "idle"
  /\ call = [fn |-> "", path |-> "", usecaseName |-> ""]
  /\ ret = ""
  /\ local = [domain |-> "products", usecaseName |-> "", apiName |-> "products",
              httpMethod |-> "GET", createDomainModel |-> FALSE, confirmProceed |-> FALSE]
  /\ exitCode = -1
  /\ runs = 0
  /\ fs0 = fs
  /\ dirs0 = dirs
  /\ history = <<>>
  /\ argv = <<>>
  /\ stdin = NoAnswers
  /\ calls = <<>>
  /\ io = NoIo

\* a call of a registry function: LibCall, with fs.writeFileSync throwing ENOENT
\* when src/di is missing
RegCall(fn, path, usecaseName, result) ==
  /\ program = "library"
  /\ runs < MaxCalls
  /\ runs' = runs + 1
  /\ fs0' = fs
  /\ dirs0' = dirs
  /\ call' = [fn |-> fn, path |-> path, usecaseName |-> usecaseName]
  /\ fs' = result.fs
  /\ ret' = result.ret
  /\ history' = Append(history, <<fn, usecaseName>>)
  /\ UNCHANGED <<dirs, pc, local, exitCode, program, argv, stdin, calls, io>>

\* registerUsecaseInDI(usecaseName, usecaseSymbol) with the symbol generateUsecase
\* derives (line 194)
LibRegisterUsecaseInDI ==
  \E usecaseName \in RegUsecaseNames :
    RegCall("registerUsecaseInDI", symbolsPath, usecaseName,
            registerUsecaseInDI(fs, dirs, usecaseName,
                                ReplaceDashes(toUpperCase(usecaseName), "_")))

\* registerUsecaseInContainer(usecaseName, usecasePascalCase, usecaseSymbol)
LibRegisterUsecaseInContainer ==
  \E usecaseName \in RegUsecaseNames :
    RegCall("registerUsecaseInContainer", containerPath, usecaseName,
            registerUsecaseInContainer(fs, dirs, usecaseName, toPascalCase(usecaseName),
                                       ReplaceDashes(toUpperCase(usecaseName), "_")))

\* what generateUsecase gives back or throws
Outcome(result) == IF result.thrown = "" THEN "returned" ELSE result.thrown

\* the statements of generateUsecase from line 194 on, run on the project as it
\* is found by a caller that has the conversions of string-utils.js and
\* ensureDirectoryExists of fs-utils.js (generateUsecase itself stops at line 188,
\* see generateUsecase)
LibGenerateUsecaseBody ==
  \E usecaseName \in RegUsecaseNames :
    /\ program = "library"
    /\ runs = 0
    /\ runs' = runs + 1
    /\ fs0' = fs
    /\ dirs0' = dirs
    /\ call' = [fn |-> "generateUsecase", path |-> "", usecaseName |-> usecaseName]
    /\ local' = [local EXCEPT !.usecaseName = usecaseName]
    /\ fs' = generateUsecaseRegistries(
               generateUsecaseBase(fs,
                 generateUsecaseDirectories(fs, dirs, [local EXCEPT !.usecaseName = usecaseName])),
               [local EXCEPT !.usecaseName = usecaseName]).fs
    /\ dirs' = generateUsecaseDirectories(fs, dirs, [local EXCEPT !.usecaseName = usecaseName])
    /\ ret' = Outcome(generateUsecaseRegistries(
                generateUsecaseBase(fs,
                  generateUsecaseDirectories(fs, dirs, [local EXCEPT !.usecaseName = usecaseName])),
                [local EXCEPT !.usecaseName = usecaseName]))
    /\ history' = Append(history, <<"generateUsecase", usecaseName>>)
    /\ UNCHANGED <<pc, exitCode, program, argv, stdin, calls, io>>

NextReg ==
  \/ LibRegisterUsecaseInDI
  \/ LibRegisterUsecaseInContainer
  \/ LibGenerateUsecaseBody

SpecReg == InitReg /\ [][NextReg]_vars

-----------------------------------------------------------------------------
(* SpecPar: two create-use-case.js processes generating different use      *)
(* cases in the same project at the same time, each from its                *)
(* updateSymbolsFile step on.  A registry step reads the file              *)
(* (fs.existsSync, fs.readFileSync) and later writes it (fs.writeFileSync); *)
(* the other process may run between the two.  Here pc, local and exitCode *)
(* have one value per process.                                             *)

Procs == {1, 2}

ParRequests ==
  [p \in Procs |->
     IF p = 1
     THEN [domain |-> "products", usecaseName |-> "get-product", apiName |-> "products",
           httpMethod |-> "GET", seen |-> <<>>]
     ELSE [domain |-> "orders", usecaseName |-> "list-orders", apiName |-> "orders",
           httpMethod |-> "GET", seen |-> <<>>]]

\* a project without registries, and one whose registries an earlier run for
\* create-user / users wrote
ParProjects ==
  { EmptyFs,
    [p \in {symbolsPath, containerPath} |->
       IF p = symbolsPath
       THEN symbolsContent("USERS", "CREATE_USER_USE_CASE")
       ELSE containerContent("CreateUser", "CREATE_USER_USE_CASE", "Users", "USERS",
                             "create-user", "users")] }

InitPar ==
  /\ fs \in ParProjects
  /\ dirs = {"."}
  /\ program = "create-use-case.js"
  /\ pc = [p \in Procs |-> "updateSymbolsFile"]
  /\ call = [fn |-> "", path |-> "", usecaseName |-> ""]
  /\ ret = ""
  /\ local = ParRequests
  /\ exitCode = [p \in Procs |-> -1]
  /\ runs = 2
  /\ fs0 = fs
  /\ dirs0 = dirs
  /\ history = <<>>
  /\ argv = <<>>
  /\ stdin = NoAnswers
  /\ calls = <<>>
  /\ io = NoIo

\* the names main() derives, for the request of a process
ParUsecaseSymbol(p) == toConstCase(local[p].usecaseName) \o "_USE_CASE"
ParApiSymbol(p) == toConstCase(local[p].apiName)

\* a process goes from one position to the next and nothing else changes
ParGoes(p, from, to) ==
  /\ pc[p] = from
  /\ pc' = [pc EXCEPT ![p] = to]
  /\ UNCHANGED <<dirs, runs, fs0, dirs0, history, program, call, ret, argv, stdin, calls, io>>

\* fs.existsSync(path) and, when the file is there, fs.readFileSync(path)
ParRead(p, path, from, to) ==
  /\ ParGoes(p, from, to)
  /\ local' = [local EXCEPT ![p].seen = IF path \in DOMAIN fs THEN <<fs[path]>> ELSE <<>>]
  /\ UNCHANGED <<fs, exitCode>>

\* the file system as the process read it: the file absent, or with the text read
ParSeen(p, path) ==
  IF local[p].seen = <<>> THEN Without(fs, path)
  ELSE [q \in DOMAIN fs \cup {path} |-> IF q = path THEN local[p].seen[1] ELSE fs[q]]

ParReadSymbols(p) == ParRead(p, symbolsPath, "updateSymbolsFile", "updateSymbolsFile.write")

\* fs.writeFileSync(symbolsPath, content), content made from the text read
ParWriteSymbols(p) ==
  /\ ParGoes(p, "updateSymbolsFile.write", "createUsecaseInterfaceFile")
  /\ fs' = updateSymbolsFile(ParSeen(p, symbolsPath), ParUsecaseSymbol(p), ParApiSymbol(p))
  /\ UNCHANGED <<local, exitCode>>

ParCreateUsecaseInterfaceFile(p) ==
  /\ ParGoes(p, "createUsecaseInterfaceFile", "createUsecaseImplementationFile")
  /\ fs' = createUsecaseInterfaceFile(fs, local[p].domain, local[p].usecaseName,
                                      toPascalCase(local[p].usecaseName))
  /\ UNCHANGED <<local, exitCode>>

ParCreateUsecaseImplementationFile(p) ==
  /\ ParGoes(p, "createUsecaseImplementationFile", "createOrUpdateApiClientFile")
  /\ fs' = createUsecaseImplementationFile(fs, local[p].domain, local[p].usecaseName,
                                           toPascalCase(local[p].usecaseName),
                                           toPascalCase(local[p].apiName), ParApiSymbol(p))
  /\ UNCHANGED <<local, exitCode>>

ParCreateOrUpdateApiClientFile(p) ==
  /\ ParGoes(p, "createOrUpdateApiClientFile", "updateContainerFile")
  /\ fs' = createOrUpdateApiClientFile(fs, local[p].domain, local[p].apiName,
                                       local[p].usecaseName,
                                       toPascalCase(local[p].usecaseName),
                                       local[p].httpMethod)
  /\ UNCHANGED <<local, exitCode>>

ParReadContainer(p) == ParRead(p, containerPath, "updateContainerFile", "updateContainerFile.write")

\* fs.writeFileSync(containerPath, content), content made from the text read
ParWriteContainer(p) ==
  /\ ParGoes(p, "updateContainerFile.write", "createActionFile")
  /\ fs' = updateContainerFile(ParSeen(p, containerPath), toPascalCase(local[p].usecaseName),
                               ParUsecaseSymbol(p), toPascalCase(local[p].apiName),
                               ParApiSymbol(p), local[p].usecaseName)
  /\ UNCHANGED <<local, exitCode>>

\* the last step; main() returns and the process ends with code 0
ParCreateActionFile(p) ==
  /\ ParGoes(p, "createActionFile", "exited")
  /\ fs' = createActionFile(fs, toCamelCase(local[p].usecaseName),
                            toPascalCase(local[p].usecaseName), ParUsecaseSymbol(p),
                            local[p].domain, local[p].usecaseName)
  /\ exitCode' = [exitCode EXCEPT ![p] = 0]
  /\ UNCHANGED local

NextPar ==
  \E p \in Procs :
    \/ ParReadSymbols(p)
    \/ ParWriteSymbols(p)
    \/ ParCreateUsecaseInterfaceFile(p)
    \/ ParCreateUsecaseImplementationFile(p)
    \/ ParCreateOrUpdateApiClientFile(p)
    \/ ParReadContainer(p)
    \/ ParWriteContainer(p)
    \/ ParCreateActionFile(p)

SpecPar == InitPar /\ [][NextPar]_vars

-----------------------------------------------------------------------------
(* Reading the generated registries back, for the properties below         *)

Range(s) == {s[i] : i \in DOMAIN s}

\* the lines of a text (split at "\n")
Lines(t) ==
  LET breaks == {i \in 1..Len(t) : Char(t, i) = "\n"}
      startOf(b) == IF \E c \in breaks : c < b
                    THEN MaxOf({c \in breaks : c < b}) + 1 ELSE 1
      ends == breaks \cup {Len(t) + 1}
      Ordered[S \in SUBSET ends] ==
        IF S = {} THEN <<>>
        ELSE LET b == MinOf(S) IN <<SubSeq(t, startOf(b), b - 1)>> \o Ordered[S \ {b}]
  IN  Ordered[ends]

\* the lines of a text without their leading blanks, keeping those that pass
TrimmedLines(t, Keep(_)) ==
  LET lines == Lines(t)
      trimmed == [i \in 1..Len(lines) |-> TrimStart(lines[i])]
  IN  SelectSeq(trimmed, Keep)

\* the part of each entry before the first occurrence of `stop`, after `skip` characters
Fields(entries, skip, stop) ==
  [i \in 1..Len(entries) |-> SubSeq(entries[i], skip + 1, IndexOf(entries[i], stop) - 1)]

\* the keys of the group `export const <group> = { ... };` of symbols.ts, in order
GroupKeys(t, group) ==
  LET head == "export const " \o group \o " = {"
      open == IndexOf(t, head)
      close == IF open = 0 THEN 0 ELSE IndexFrom(t, "}", open + Len(head))
      body == IF close = 0 THEN "" ELSE SubSeq(t, open + Len(head), close - 1)
  IN  Fields(TrimmedLines(body, LAMBDA l : IndexOf(l, ":") > 1), 0, ":")

HasGroup(t, group) == Includes(t, "export const " \o group \o " = {")

\* the symbols registered by container.ts, one per `container.registerSingleton(` line
RegisteredSymbols(t) ==
  Fields(TrimmedLines(t, LAMBDA l : StartsAt(l, "container.registerSingleton(", 1)
                                    /\ IndexOf(l, ",") # 0),
         Len("container.registerSingleton("), ",")

\* the names imported by the `import { Name } from` lines of a file
ImportedNames(t) ==
  Range(Fields(TrimmedLines(t, LAMBDA l : StartsAt(l, "import { ", 1) /\ IndexOf(l, " }") # 0),
               Len("import { "), " }"))

\* the methods of an API client class: the names after "async " at the start of a line
MethodNames(t) ==
  Range(Fields(TrimmedLines(t, LAMBDA l : StartsAt(l, "async ", 1) /\ IndexOf(l, "(") # 0),
               Len("async "), "("))

NoDuplicates(s) == \A i, j \in DOMAIN s : s[i] = s[j] => i = j

-----------------------------------------------------------------------------
(* Properties of the generation runs (SpecGen)                             *)

Script == program = "create-use-case.js"
Library == program = "library"

\* C1: from an empty project, a generation run with the same (domain, use case,
\* API, HTTP method) as the run before it leaves every file (interface,
\* implementation, action, API client, symbols.ts, container.ts) with exactly the
\* content it had after that earlier run.
C1_SecondRunChangesNothing ==
  (/\ Script /\ pc = "idle" /\ Len(history) >= 2
   /\ history[Len(history)] = history[Len(history) - 1]) =>
    \A p \in DOMAIN fs0 : p \in DOMAIN fs /\ fs[p] = fs0[p]

C1_Witness ==
  /\ Script /\ pc = "idle" /\ Len(history) = 2
  /\ history[2] = history[1]
  /\ {symbolsPath, containerPath, interfacePath(local.domain, local.usecaseName),
      implementationPath(local.usecaseName), actionPath(usecaseCamelCase),
      apiClientPath(local.apiName)} \subseteq DOMAIN fs0

\* the four target paths a run never overwrites
SkippedPaths ==
  {interfacePath(local.domain, local.usecaseName), implementationPath(local.usecaseName),
   actionPath(usecaseCamelCase), modelPath(local.domain)}

\* C2: in a generate run, an interface, implementation, action or entity file
\* that exists before the run has the same content after it; and
\* writeFileIfNotExists (alone or through the library's generators) never
\* changes an existing file and returns true exactly when it created the file.
C2_ExistingFilesAreKept ==
  /\ (Script /\ runs > 0) =>
       \A p \in SkippedPaths : p \in DOMAIN fs0 => (p \in DOMAIN fs /\ fs[p] = fs0[p])
  /\ (Library /\ call.fn \in {"writeFileIfNotExists", "createUsecaseInterfaceFile",
                              "createUsecaseImplementationFile", "createActionFile"}) =>
       /\ call.path \in DOMAIN fs0 => (fs = fs0 /\ ret = "false")
       /\ ret = "true" <=> (call.path \notin DOMAIN fs0 /\ call.path \in DOMAIN fs)
       /\ \A p \in DOMAIN fs0 : p \in DOMAIN fs /\ fs[p] = fs0[p]

C2_Witness ==
  /\ Script /\ pc = "idle" /\ Len(history) = 2
  /\ SkippedPaths \subseteq DOMAIN fs0

C2_LibraryWitness ==
  /\ Library /\ call.fn = "writeFileIfNotExists"
  /\ call.path \in DOMAIN fs0 /\ ret = "false"

\* C3: after any sequence of generate runs from an empty project, container.ts
\* holds at most one registration statement per use-case symbol and per API symbol.
C3_AtMostOneRegistrationPerSymbol ==
  (Script /\ pc = "idle" /\ containerPath \in DOMAIN fs) =>
    NoDuplicates(RegisteredSymbols(fs[containerPath]))

\* C4: after any sequence of generate runs from an empty project, no key occurs
\* twice in the API group of symbols.ts and none occurs twice in its USE_CASES group.
C4_GroupKeysAreUnique ==
  (Script /\ pc = "idle" /\ symbolsPath \in DOMAIN fs) =>
    /\ NoDuplicates(GroupKeys(fs[symbolsPath], "API"))
    /\ NoDuplicates(GroupKeys(fs[symbolsPath], "USE_CASES"))

C4_Witness ==
  /\ Script /\ pc = "idle" /\ Len(history) = 2
  /\ history[2] = history[1]
  /\ GroupKeys(fs[symbolsPath], "USE_CASES") = <<usecaseSymbol>>
  /\ GroupKeys(fs[symbolsPath], "API") = <<apiSymbol>>

\* C5: updateSymbolsFile on an existing symbols.ts with an API group and a
\* USE_CASES group leaves apiSymbol in the API group and usecaseSymbol in the
\* USE_CASES group, whatever the other group holds.
C5_SymbolsLandInTheirOwnGroup ==
  (/\ Script /\ pc = "createUsecaseInterfaceFile"
   /\ symbolsPath \in DOMAIN fs0
   /\ HasGroup(fs0[symbolsPath], "API") /\ HasGroup(fs0[symbolsPath], "USE_CASES")) =>
    /\ apiSymbol \in Range(GroupKeys(fs[symbolsPath], "API"))
    /\ usecaseSymbol \in Range(GroupKeys(fs[symbolsPath], "USE_CASES"))

\* C6: when the API client file exists and has no method for the use case,
\* createOrUpdateApiClientFile (of the script and of the library) adds the method
\* `async <camelCase(usecase)>` and the import of its Input/Output types.
C6_MethodIsAddedToExistingClient ==
  /\ (/\ Script /\ pc = "updateContainerFile"
      /\ apiClientPath(local.apiName) \in DOMAIN fs0
      /\ usecaseCamelCase \notin MethodNames(fs0[apiClientPath(local.apiName)])) =>
       /\ usecaseCamelCase \in MethodNames(fs[apiClientPath(local.apiName)])
       /\ Includes(fs[apiClientPath(local.apiName)],
                   importStatement(local.domain, local.usecaseName, usecasePascalCase))
  /\ (/\ Library /\ call.fn = "createOrUpdateApiClientFile"
      /\ call.path \in DOMAIN fs0
      /\ camelOfWords(call.usecaseName) \notin MethodNames(fs0[call.path])) =>
       camelOfWords(call.usecaseName) \in MethodNames(fs[call.path])

\* C7: after updateContainerFile on an existing container.ts that has the
\* `export { container };` line, the file imports the use-case class and the Api
\* class and registers the use-case symbol and the API symbol.
C7_ContainerHasImportsAndRegistrations ==
  (/\ Script /\ pc = "createActionFile"
   /\ containerPath \in DOMAIN fs0
   /\ Includes(fs0[containerPath], "export { container };")) =>
    /\ (usecasePascalCase \o "Usecase") \in ImportedNames(fs[containerPath])
    /\ (apiPascalCase \o "Api") \in ImportedNames(fs[containerPath])
    /\ ("USE_CASES." \o usecaseSymbol) \in Range(RegisteredSymbols(fs[containerPath]))
    /\ ("API." \o apiSymbol) \in Range(RegisteredSymbols(fs[containerPath]))

\* C8: on an empty project the run products / get-product / products / GET
\* creates symbols.ts with exactly PRODUCTS in the API group and exactly
\* GET_PRODUCT_USE_CASE in the USE_CASES group, and container.ts registering
\* exactly those two symbols besides the base API client.
C8_FirstRunRegistries ==
  (/\ Script /\ pc = "idle" /\ Len(history) = 1
   /\ history[1] = <<"products", "get-product", "products", "GET">>) =>
    /\ symbolsPath \notin DOMAIN fs0 /\ containerPath \notin DOMAIN fs0
    /\ symbolsPath \in DOMAIN fs /\ containerPath \in DOMAIN fs
    /\ GroupKeys(fs[symbolsPath], "API") = <<"PRODUCTS">>
    /\ GroupKeys(fs[symbolsPath], "USE_CASES") = <<"GET_PRODUCT_USE_CASE">>
    /\ RegisteredSymbols(fs[containerPath]) =
         <<"BASE.API_CLIENT", "API.PRODUCTS", "USE_CASES.GET_PRODUCT_USE_CASE">>

C8_Witness ==
  /\ Script /\ pc = "idle" /\ Len(history) = 1
  /\ history[1] = <<"products", "get-product", "products", "GET">>
  /\ symbolsPath \in DOMAIN fs /\ containerPath \in DOMAIN fs

-----------------------------------------------------------------------------
(* Properties of one execution of create-use-case.js (Spec)                *)

BeforeConfirmation ==
  pc \in {"start", "promptDomain", "promptUsecaseName", "promptApiName",
          "promptHttpMethod", "checkTsyringe", "promptDomainModel", "confirm"}

Generating ==
  pc \in {"ensureDirectories", "createBaseFiles", "createDomainModel", "updateSymbolsFile",
          "createUsecaseInterfaceFile", "createUsecaseImplementationFile",
          "createOrUpdateApiClientFile", "updateContainerFile", "createActionFile"}

\* C9: no file or directory is created or modified before the user has answered
\* the final confirmation with yes; when the answer is no, the process exits with
\* code 0 and the file system is as it was at the launch.
C9_NothingChangesBeforeConfirmation ==
  Script =>
    /\ BeforeConfirmation => (fs = fs0 /\ dirs = dirs0)
    /\ pc = "exited" => (exitCode = 0 /\ fs = fs0 /\ dirs = dirs0)

\* C10: a run whose HTTP method is not one of GET, POST, PUT, PATCH, DELETE
\* (compared case-insensitively) never reaches a generation step: no file is
\* created or modified and no placeholder method body is written.
C10_InvalidMethodIsRejected ==
  (/\ Script
   /\ pc \notin {"start", "promptDomain", "promptUsecaseName", "promptApiName", "promptHttpMethod"}
   /\ local.httpMethod # "" /\ ~validateHttpMethod(local.httpMethod)) =>
    /\ ~Generating /\ pc # "idle"
    /\ \A p \in DOMAIN fs : ~Includes(fs[p], "throw new Error('Not implemented');")

\* C11: in create-use-case.js, when the API name is not on the command line and
\* the user leaves the API-name prompt blank, the generation steps run with
\* apiName equal to the domain, and the HTTP method is the one typed at its own
\* prompt (GET when that prompt is left blank).
C11_BlankApiNameDefaultsToDomain ==
  (Script /\ Generating /\ "apiName" \in DOMAIN stdin /\ trim(stdin["apiName"]) = "") =>
    /\ local.apiName = local.domain
    /\ "httpMethod" \in DOMAIN stdin
    /\ local.httpMethod = IF trim(stdin["httpMethod"]) = "" THEN "GET"
                          ELSE toUpperCase(stdin["httpMethod"])

\* C12: every domain, use-case name and API name that reaches the generation
\* steps of create-use-case.js, from the command line or from a prompt, matches
\* ^[a-z][a-z0-9]*(-[a-z0-9]+)*$ (and so is not empty).
C12_GeneratedNamesAreKebabCase ==
  (Script /\ Generating) =>
    /\ validateKebabCase(local.domain)
    /\ validateKebabCase(local.usecaseName)
    /\ validateKebabCase(local.apiName)

Cli == program = "generate-usecase.js"

\* --help or -h is somewhere on the command line of the running process
HelpAsked == \E i \in 1..Len(argv) : argv[i] \in {"--help", "-h"}

\* C13: with --help or -h anywhere among the arguments, create-use-case.js and
\* generate-usecase.js exit with code 0, having created or modified no file or
\* directory, called no generation step and not called generateUsecase,
\* whatever the other arguments are.
C13_HelpOnlyPrintsUsage ==
  (HelpAsked /\ runs > 0) =>
    /\ pc = "exited" /\ exitCode = 0
    /\ fs = fs0 /\ dirs = dirs0
    /\ calls = <<>> /\ history = <<>>

C13_Witness ==
  /\ Cli /\ pc = "exited" /\ exitCode = 0
  /\ Len(argv) > 1 /\ argv[1] \notin {"--help", "-h"} /\ argv[Len(argv)] = "-h"

C13_ScriptWitness ==
  /\ Script /\ pc = "exited" /\ exitCode = 0
  /\ Len(argv) > 1 /\ argv[1] \notin {"--help", "-h"} /\ argv[Len(argv)] = "-h"

\* the value that follows a flag on the command line, "" when the flag or its
\* value is missing
Given(flag) == IF PositionOf(argv, flag) = 0 THEN "" ELSE ArgAt(argv, PositionOf(argv, flag) + 1)

\* the process ran generate-usecase.js in argument mode, without asking for help
ArgumentMode == Cli /\ pc = "exited" /\ Len(argv) > 0 /\ ~HelpAsked

\* C14: generate-usecase.js in argument mode (here with the long flags): when the
\* domain, the use-case name or the API name is missing or is not kebab-case, or
\* the HTTP method is missing or is not GET, POST, PUT, PATCH or DELETE in any
\* letter case, generateUsecase is never called and the exit code is 1;
\* otherwise generateUsecase is called exactly once, with the method upper-cased.
C14_ArgumentsAreValidatedBeforeTheCall ==
  (ArgumentMode /\ \A i \in 1..Len(argv) : argv[i] \notin {"-d", "-u", "-a", "-m"}) =>
    IF /\ validateKebabCase(Given("--domain"))
       /\ validateKebabCase(Given("--usecase"))
       /\ validateKebabCase(Given("--api"))
       /\ toUpperCase(Given("--method")) \in validMethods
    THEN calls = << [domain |-> Given("--domain"), usecaseName |-> Given("--usecase"),
                     apiName |-> Given("--api"),
                     httpMethod |-> toUpperCase(Given("--method"))] >>
    ELSE calls = <<>> /\ exitCode = 1

\* C15: generate-usecase.js -d D -u U -a A -m M with valid D, U, A and M calls
\* generateUsecase once with {domain: D, usecaseName: U, apiName: A,
\* httpMethod: uppercase(M)}, as --domain D --usecase U --api A --method M does.
C15_ShortFlagsAreRead ==
  (/\ ArgumentMode /\ Len(argv) = 8
   /\ argv[1] = "-d" /\ argv[3] = "-u" /\ argv[5] = "-a" /\ argv[7] = "-m"
   /\ validateKebabCase(argv[2]) /\ validateKebabCase(argv[4]) /\ validateKebabCase(argv[6])
   /\ toUpperCase(argv[8]) \in validMethods) =>
    calls = << [domain |-> argv[2], usecaseName |-> argv[4], apiName |-> argv[6],
                httpMethod |-> toUpperCase(argv[8])] >>

-----------------------------------------------------------------------------
(* Properties of generateApiMethodBody (SpecBody)                          *)

\* e is "/api/v1/" followed by name with each "-" replaced by "/"
IsEndpointOf(e, name) ==
  /\ Len(e) = 8 + Len(name)
  /\ SubSeq(e, 1, 8) = "/api/v1/"
  /\ \A i \in 1..Len(name) :
       Char(e, 8 + i) = IF Char(name, i) = "-" THEN "/" ELSE Char(name, i)

\* the argument of fetch in a generated body: the quote or backtick that opens it,
\* the literal path up to the closing quote or the first "${", and what follows
FetchPath(body) ==
  LET open == IndexOf(body, "Output>(") + 8
      stop == MinOf({i \in (open + 1)..Len(body) :
                       Char(body, i) \in {"'", "$", BackTick}})
  IN  [quote |-> Char(body, open),
       literal |-> SubSeq(body, open + 1, stop - 1),
       rest |-> From(body, stop)]

\* C16: for every use-case name and every HTTP method in any letter case,
\* generateApiMethodBody targets /api/v1/<name with "-" replaced by "/">: GET
\* appends the id only when request.id is set and sends no body; POST appends no
\* id and sends the request as body; PUT and PATCH always append the id and send
\* the request as body; DELETE always appends the id and sends no body (get-product
\* with DELETE targets /api/v1/get/product/{id}); any other method yields a body
\* that only throws 'Not implemented'.
C16_MethodBodyTargetsTheEndpoint ==
  pc = "returned" =>
    LET method == toUpperCase(local.httpMethod)
        sendsBody == Includes(ret, "body: JSON.stringify(request),")
        names == Includes(ret, "method: '" \o method \o "',")
    IN  CASE method = "GET" ->
               /\ FetchPath(ret).quote = BackTick
               /\ IsEndpointOf(FetchPath(ret).literal, local.usecaseName)
               /\ StartsAt(FetchPath(ret).rest,
                           "${request.id ? " \o BackTick \o "/${request.id}" \o BackTick
                           \o " : ''}" \o BackTick \o ", {", 1)
               /\ names /\ ~sendsBody
          [] method = "POST" ->
               /\ FetchPath(ret).quote = "'"
               /\ IsEndpointOf(FetchPath(ret).literal, local.usecaseName)
               /\ StartsAt(FetchPath(ret).rest, "', {", 1)
               /\ names /\ sendsBody
          [] method \in {"PUT", "PATCH", "DELETE"} ->
               /\ FetchPath(ret).quote = BackTick
               /\ Len(FetchPath(ret).literal) > 0
               /\ Char(FetchPath(ret).literal, Len(FetchPath(ret).literal)) = "/"
               /\ IsEndpointOf(SubSeq(FetchPath(ret).literal, 1,
                                      Len(FetchPath(ret).literal) - 1), local.usecaseName)
               /\ StartsAt(FetchPath(ret).rest, "${request.id}" \o BackTick \o ", {", 1)
               /\ names /\ (sendsBody <=> method # "DELETE")
               /\ (local.usecaseName = "get-product" /\ method = "DELETE") =>
                    Includes(ret, BackTick \o "/api/v1/get/product/${request.id}" \o BackTick)
          [] OTHER ->
               /\ ~Includes(ret, "fetch") /\ ~Includes(ret, "return")
               /\ \E i \in 1..Len(ret) :
                    /\ StartsAt(ret, "// TODO:", 1)
                    /\ Char(ret, i) = "\n"
                    /\ IndexOf(ret, "\n") = i
                    /\ trim(From(ret, i + 1)) = "throw new Error('Not implemented');"

C16_Witness ==
  /\ pc = "returned" /\ call.fn = "lib.generateApiMethodBody"
  /\ local.usecaseName = "create-user-account" /\ local.httpMethod = "pAtCh"
  /\ Includes(ret, "/api/v1/create/user/account/${request.id}")

-----------------------------------------------------------------------------
(* The generation steps in a project as it is found (SpecEnv)               *)

\* the run met neither a path it could not write nor another process
Undisturbed == io.unwritable = {} /\ io.created = {}

\* a registry of the project lacked a section the run writes into
LackedSection ==
  \/ /\ symbolsPath \in DOMAIN fs0
     /\ ~HasGroup(fs0[symbolsPath], "API") \/ ~HasGroup(fs0[symbolsPath], "USE_CASES")
  \/ /\ containerPath \in DOMAIN fs0
     /\ ~Includes(fs0[containerPath], "export { container };")

\* C17: when symbols.ts exists without the API or the USE_CASES group, or
\* container.ts exists without the `export { container };` anchor, the run does
\* not fail and afterwards each registry that lacked a section has it, with the
\* new entry in it
C17_MissingSectionIsCreated ==
  (Script /\ pc = "exited" /\ Undisturbed /\ LackedSection) =>
    /\ exitCode = 0
    /\ symbolsPath \in DOMAIN fs0 =>
         /\ apiSymbol \in Range(GroupKeys(fs[symbolsPath], "API"))
         /\ usecaseSymbol \in Range(GroupKeys(fs[symbolsPath], "USE_CASES"))
    /\ containerPath \in DOMAIN fs0 =>
         /\ Includes(fs[containerPath], "export { container };")
         /\ ("USE_CASES." \o usecaseSymbol) \in Range(RegisteredSymbols(fs[containerPath]))

\* the steps of the run that have been entered
Executed == Range(io.executed)

\* C18: when a step of a generate run fails, the failure is reported for that
\* step and every other step of the run is still executed
C18_FailedStepDoesNotStopTheRun ==
  (Script /\ pc = "exited" /\ io.failed # {} /\ io.created = {}) =>
    /\ io.failed \subseteq io.reported
    /\ EnvSteps \subseteq Executed

\* C19: when a step of a create-use-case.js generate run hits an I/O failure,
\* the failures of the symbols.ts and container.ts steps included, the process
\* ends with an exit code other than 0
C19_FailureGivesNonZeroExitCode ==
  (Script /\ pc = "exited" /\ io.failed # {} /\ io.created = {}) => exitCode # 0

\* C20: a file that was absent when the step looked for it and that another
\* process created before the step wrote it is left as that process wrote it,
\* an error is reported for the step, and the other steps of the run are executed
C20_FileCreatedMeanwhileIsNotOverwritten ==
  (Script /\ io.unwritable = {}) =>
    \A step \in io.raced :
      /\ pc # step =>
           /\ fs[TargetOf(step)] = foreignContent
           /\ step \in io.reported
      /\ pc = "exited" => EnvSteps \subseteq Executed

-----------------------------------------------------------------------------
(* generate-usecase.js: the result of generateUsecase                      *)

\* generateUsecase has been called and has thrown
Thrown == calls # <<>> /\ ret # ""

\* C21: in generate-usecase.js, in argument mode and in interactive mode, when
\* generateUsecase throws the error message is printed and the process exits
\* with code 1; the success message is printed only when it returned
C21_ThrowGivesMessageAndExitCodeOne ==
  (Cli /\ pc = "exited") =>
    /\ Thrown => errorMessage(ret) \in io.printed /\ exitCode = 1
    /\ successMessage \in io.printed => calls # <<>> /\ ret = ""

-----------------------------------------------------------------------------
(* The case conversions (SpecNames)                                        *)

\* c is id in upper case with "_" where id has "-"
IsConstOf(c, id) ==
  /\ Len(c) = Len(id)
  /\ \A i \in 1..Len(id) :
       Char(c, i) = IF Char(id, i) = "-" THEN "_" ELSE UpperChar(Char(id, i))

\* the conversion fn has been called on the two identifiers
Called(fn) == pc = "returned" /\ Len(calls) = 2 /\ calls[1].fn = fn

\* C22: for identifiers a and b, toConstCase(id) is id in upper case with every
\* "-" replaced by "_", and toConstCase(a) = toConstCase(b) only when a = b
C22_ConstCaseDeterminesTheIdentifier ==
  Called("toConstCase") =>
    /\ IsConstOf(calls[1].result, calls[1].arg)
    /\ IsConstOf(calls[2].result, calls[2].arg)
    /\ calls[1].result = calls[2].result => calls[1].arg = calls[2].arg

C22_Witness ==
  /\ Called("toConstCase")
  /\ calls[1].arg = "a-b" /\ calls[1].result = "A_B"
  /\ calls[2].arg = "ab" /\ calls[2].result = "AB"

\* the module path "@/infrastructure/api/<api>/<api>.api" of an import, as a
\* path of the project
ApiModulePath(apiName) == "src/infrastructure/api/" \o apiName \o "/" \o apiName \o ".api"

\* C28: an API name converted to PascalCase and back to kebab-case is the
\* original name, so the module imported by the implementation file and by
\* container.ts is the file createOrUpdateApiClientFile creates
C28_ApiNameSurvivesTheRoundTrip ==
  Called("apiNameOfPascalCase") =>
    \A i \in 1..2 :
      /\ calls[i].result = calls[i].arg
      /\ ApiModulePath(calls[i].result) \o ".ts" = apiClientPath(calls[i].arg)

\* C29: two different use-case names have different camelCase names and
\* different PascalCase names, hence different action files
C29_DistinctNamesStayDistinct ==
  ((Called("toCamelCase") \/ Called("toPascalCase")) /\ calls[1].arg # calls[2].arg) =>
    /\ calls[1].result # calls[2].result
    /\ Called("toCamelCase") => actionPath(calls[1].result) # actionPath(calls[2].result)

-----------------------------------------------------------------------------
(* updateSymbolsFile on an existing symbols.ts                             *)

\* the text between `export const <group> = {` and the next "}" ("" without them)
GroupBody(t, group) ==
  LET head == "export const " \o group \o " = {"
      open == IndexOf(t, head)
      close == IF open = 0 THEN 0 ELSE IndexFrom(t, "}", open + Len(head))
  IN  IF close = 0 THEN "" ELSE SubSeq(t, open + Len(head), close - 1)

\* the text without the body of a group
WithoutBody(t, group) ==
  LET head == "export const " \o group \o " = {"
      open == IndexOf(t, head)
      close == IF open = 0 THEN 0 ELSE IndexFrom(t, "}", open + Len(head))
  IN  IF close = 0 THEN t ELSE SubSeq(t, 1, open + Len(head) - 1) \o From(t, close)

\* the text outside the API and USE_CASES groups
OutsideGroups(t) == WithoutBody(WithoutBody(t, "API"), "USE_CASES")

IsPrefix(s, t) == Len(s) <= Len(t) /\ SubSeq(t, 1, Len(s)) = s

\* a run that found symbols.ts has passed updateSymbolsFile
SymbolsPatched ==
  /\ Script /\ pc = "idle" /\ runs > 0
  /\ symbolsPath \in DOMAIN fs0

\* C23: updateSymbolsFile on an existing symbols.ts changes no text outside the
\* API and USE_CASES groups, keeps the entries of both groups in their order and
\* puts a new entry after the entries its group had
C23_SymbolsPatchOnlyAppendsToItsGroups ==
  SymbolsPatched =>
    /\ OutsideGroups(fs[symbolsPath]) = OutsideGroups(fs0[symbolsPath])
    /\ \A group \in {"API", "USE_CASES"} :
         /\ IsPrefix(GroupBody(fs0[symbolsPath], group), GroupBody(fs[symbolsPath], group))
         /\ IsPrefix(GroupKeys(fs0[symbolsPath], group), GroupKeys(fs[symbolsPath], group))

\* the second run added a use case to the USE_CASES group the first run wrote
C23_Witness ==
  /\ SymbolsPatched
  /\ GroupKeys(fs0[symbolsPath], "USE_CASES") = <<"GET_PRODUCT_USE_CASE">>
  /\ GroupKeys(fs[symbolsPath], "USE_CASES") = <<"GET_PRODUCT_USE_CASE", "GET_PRODUCTS_USE_CASE">>
  /\ fs[symbolsPath] # fs0[symbolsPath]

-----------------------------------------------------------------------------
(* The registry functions of use-case-generator.js (SpecReg)               *)

\* the lines of container.ts that import or register a use case
UsecaseLines(t) ==
  Range(TrimmedLines(t, LAMBDA l :
          \/ StartsAt(l, "container.register(USE_CASES.", 1)
          \/ StartsAt(l, "import { ", 1) /\ Includes(l, "Usecase }")))

\* the last call of the library was fn
LastCall(fn) == Library /\ call.fn = fn

\* the symbol generateUsecase derives from the use-case name of the last call
CalledSymbol == ReplaceDashes(toUpperCase(call.usecaseName), "_")

\* C24: registerUsecaseInContainer on an existing container.ts keeps every
\* use-case import and every use-case registration the file had, call after call
C24_ContainerKeepsItsUseCases ==
  (LastCall("registerUsecaseInContainer") /\ containerPath \in DOMAIN fs0) =>
    UsecaseLines(fs0[containerPath]) \subseteq UsecaseLines(fs[containerPath])

\* C25: registerUsecaseInDI on a symbols.ts with a USE_CASES group adds the entry
\* and returns true when the group has no entry of that key; it returns false
\* and leaves the file as it is only when the group has an entry of exactly that key
C25_SymbolIsAddedUnlessItsKeyIsInTheGroup ==
  (/\ LastCall("registerUsecaseInDI")
   /\ symbolsPath \in DOMAIN fs0
   /\ HasGroup(fs0[symbolsPath], "USE_CASES")) =>
    IF CalledSymbol \in Range(GroupKeys(fs0[symbolsPath], "USE_CASES"))
    THEN ret = "false" /\ fs = fs0
    ELSE ret = "true" /\ CalledSymbol \in Range(GroupKeys(fs[symbolsPath], "USE_CASES"))

\* a file of the project refers to the symbol
Refers(path, symbol) == path \in DOMAIN fs /\ Includes(fs[path], symbol)

\* symbols.ts defines the key in the group and container.ts registers it
DefinedAndRegistered(group, key) ==
  /\ symbolsPath \in DOMAIN fs
  /\ key \in Range(GroupKeys(fs[symbolsPath], group))
  /\ containerPath \in DOMAIN fs
  /\ \E line \in Range(Lines(fs[containerPath])) :
       /\ StartsAt(line, "container.register", 1)
       /\ Includes(line, group \o "." \o key \o ",")

C26_UnchangedRegistryIsNotWritten ==
  (Script /\ pc = "exited" /\ Undisturbed) =>
    \A path \in {symbolsPath, containerPath} :
      (path \in DOMAIN fs0 /\ fs[path] = fs0[path]) => path \notin io.written

-----------------------------------------------------------------------------
(* Two runs at the same time (SpecPar)                                     *)

\* both processes have ended
BothExited == \A p \in Procs : pc[p] = "exited"

\* C30: after two concurrent generate runs for different use cases have both
\* finished, symbols.ts and container.ts have the entries of both, whatever the
\* order of their reads and writes
C30_NoRegistryUpdateIsLost ==
  (DOMAIN pc = Procs /\ BothExited) =>
    \A p \in Procs :
      /\ ParApiSymbol(p) \in Range(GroupKeys(fs[symbolsPath], "API"))
      /\ ParUsecaseSymbol(p) \in Range(GroupKeys(fs[symbolsPath], "USE_CASES"))
      /\ ("API." \o ParApiSymbol(p)) \in Range(RegisteredSymbols(fs[containerPath]))
      /\ ("USE_CASES." \o ParUsecaseSymbol(p)) \in Range(RegisteredSymbols(fs[containerPath]))


=============================================================================
